---- MODULE Spec2Model ----
(***************************************************************************)
(* GaussianSplatControl (maplibre-gl-splat): the registry of splat and     *)
(* model layers, the control state, the load / remove / mount operations   *)
(* and the events they emit.                                               *)
(*                                                                         *)
(* JavaScript values are modelled as follows.  A string|null field holds   *)
(* <<>> for null and a non-empty tuple for a string.  An options object is *)
(* a record holding only the keys the caller gave (<<>> is "no options").  *)
(* A rotation array is an object: the state holds a reference to it and    *)
(* heap maps each reference to the array's three elements.  A url is the   *)
(* tuple of its characters.                                                *)
(***************************************************************************)
EXTENDS Integers, Sequences, FiniteSets, TLC

VARIABLES
    mounted,        \* _map and _mapScene are set (onAdd sets both, onRemove clears both)
    options,        \* _options
    st,             \* _state
    heap,           \* the rotation arrays, by reference
    splatLayers,    \* _splatLayers, in insertion order
    modelLayers,    \* _modelLayers, in insertion order
    layerCounter,   \* _layerCounter
    modelCounter,   \* _modelCounter
    sceneObjects,   \* the groups added to the current MapScene
    idlePending,    \* the once('idle') listener of onAdd: "none", "registered",
                    \* or "cancelled" (off() was called on it while registered)
    pending,        \* loadModel calls suspended at `await loadAsync(url)`
    nGroups,        \* groups created so far by createMercatorRTCGroup
    returned,       \* what a caller holds from getState(): <<>> or <<value>>
    last,           \* the last operation called and how it ended
    emitted,        \* the _emit calls made by the last operation, in order
    hist,           \* history: the splat loads that resolved, the splat records
                    \* deleted, and the ids issued per kind in order of issue
    eventHandlers,  \* _eventHandlers: per event kind, the handlers in insertion order
    calls,          \* the handler invocations made by the last operation, in order
    changeCallbacks,\* _changeCallbacks of the layer adapter, in array order
    changes         \* the invocations of the adapter's callbacks made by the last
                    \* operation, in order

vars == <<mounted, options, st, heap, splatLayers, modelLayers, layerCounter,
          modelCounter, sceneObjects, idlePending, pending, nGroups, returned,
          last, emitted, hist, eventHandlers, calls, changeCallbacks, changes>>

\* Groups the model lets the control create (bounds the loads that reach
\* createMercatorRTCGroup).
MaxLoads == 2

----------------------------------------------------------------------------
(* Urls *)

UrlSpz == <<"h","t","t","p","s",":","/","/","x","/","a",".","s","p","z">>
UrlGlb == <<"h","t","t","p","s",":","/","/","x","/","a",".","G","L","B","?","x","=","1">>
UrlRel == <<"b",".","p","l","y">>

LoadUrls == {UrlSpz, UrlGlb}

\* The urls passed to load(), which picks the pipeline by extension.
RoutedUrls == {UrlSpz, UrlGlb, UrlRel}

\* More urls for load(): m.gltf, a.Gltf#s, https://x/a (no extension),
\* a.splat?f=.glb (glb in the query only), https://x.glb (glb in the host
\* only), https://x/d.glb/a (glb in a directory name only), a.sog, a.zzz.
UrlGltf     == <<"m",".","g","l","t","f">>
UrlFragment == <<"a",".","G","l","t","f","#","s">>
UrlNoExt    == <<"h","t","t","p","s",":","/","/","x","/","a">>
UrlQueryGlb == <<"a",".","s","p","l","a","t","?","f","=",".","g","l","b">>
UrlHostGlb  == <<"h","t","t","p","s",":","/","/","x",".","g","l","b">>
UrlDirGlb   == <<"h","t","t","p","s",":","/","/","x","/","d",".","g","l","b","/","a">>
UrlSog      == <<"a",".","s","o","g">>
UrlUnknown  == <<"a",".","z","z","z">>

RouteUrls == RoutedUrls \cup {UrlGltf, UrlFragment, UrlNoExt, UrlQueryGlb,
                              UrlHostGlb, UrlDirGlb, UrlSog, UrlUnknown}

ToLowerCase(c) ==
    CASE c = "G" -> "g" [] c = "L" -> "l" [] c = "B" -> "b" [] c = "T" -> "t"
      [] c = "F" -> "f" [] c = "S" -> "s" [] c = "P" -> "p" [] c = "Z" -> "z"
      [] OTHER -> c

\* The positions of character c in s.
IndexesOf(s, c) == {i \in 1..Len(s) : s[i] = c}

Min(S) == CHOOSE m \in S : \A n \in S : m <= n
Max(S) == CHOOSE m \in S : \A n \in S : n <= m

\* The url has the form scheme://...
IsAbsolute(url) ==
    \E i \in 1..Len(url) : /\ i + 2 <= Len(url)
                          /\ url[i] = ":" /\ url[i+1] = "/" /\ url[i+2] = "/"
                          /\ \A j \in 1..(i-1) : url[j] \notin {"/", "?", "#", ".", ":"}

\* URL.pathname: the part after the authority, without query and fragment.
\* A relative url is resolved against the base http://dummy.
Pathname(url) ==
    LET cut  == IndexesOf(url, "?") \cup IndexesOf(url, "#")
        bare == IF cut = {} THEN url ELSE SubSeq(url, 1, Min(cut) - 1)
    IN  IF IsAbsolute(url)
        THEN LET colon == Min(IndexesOf(bare, ":"))
                 slash == {i \in IndexesOf(bare, "/") : i > colon + 2}
             IN  IF slash = {} THEN <<"/">>
                 ELSE SubSeq(bare, Min(slash), Len(bare))
        ELSE <<"/">> \o bare

\* s.split(sep).pop(): what follows the last sep, or s when there is none.
SplitPop(s, sep) ==
    LET at == IndexesOf(s, sep)
    IN  IF at = {} THEN s ELSE SubSeq(s, Max(at) + 1, Len(s))

\* Mutant of GetFileExtension: toLowerCase() is left out.
GetFileExtensionCased(url) == SplitPop(Pathname(url), ".")

GetFileExtension(url) ==
    LET ext == SplitPop(Pathname(url), ".")
    IN  [i \in 1..Len(ext) |-> ToLowerCase(ext[i])]

ExtGltf == <<"g","l","t","f">>
ExtGlb  == <<"g","l","b">>

IsModelUrl(url) == GetFileExtension(url) \in {ExtGltf, ExtGlb}

\* _getFilename: the last path segment, or the url when that is empty.
GetFilename(url) ==
    LET name == IF IsAbsolute(url) THEN SplitPop(Pathname(url), "/")
                ELSE SplitPop(url, "/")
    IN  IF name = <<>> THEN url ELSE name

----------------------------------------------------------------------------
(* Options, defaults and the heap of rotation arrays *)

RefDefaultRotation      == "DEFAULT_OPTIONS.defaultRotation"
RefDefaultModelRotation == "DEFAULT_OPTIONS.defaultModelRotation"
RefCallerRotation       == "options.defaultRotation"

Refs == {RefDefaultRotation, RefDefaultModelRotation, RefCallerRotation}

DEFAULT_OPTIONS ==
    [position |-> "top-right", collapsed |-> TRUE, defaultUrl |-> <<>>,
     loadDefaultUrl |-> FALSE, defaultOpacity |-> 1,
     defaultRotation |-> RefDefaultRotation,
     defaultModelRotation |-> RefDefaultModelRotation,
     defaultScale |-> 1, defaultLongitude |-> 0, defaultLatitude |-> 0,
     defaultAltitude |-> 0, flyTo |-> TRUE, flyToZoom |-> 18]

InitialHeap ==
    [r \in Refs |-> CASE r = RefDefaultRotation      -> <<-90, 90, 0>>
                      [] r = RefDefaultModelRotation -> <<90, 0, 0>>
                      [] OTHER                       -> <<0, 45, 0>>]

\* Mutant of Merge: the spread operands are swapped, base wins.
MergeUnder(base, over) ==
    [k \in DOMAIN base \cup DOMAIN over |->
        IF k \in DOMAIN base THEN base[k] ELSE over[k]]

\* { ...base, ...over }
Merge(base, over) ==
    [k \in DOMAIN base \cup DOMAIN over |->
        IF k \in DOMAIN over THEN over[k] ELSE base[k]]

\* The options a control is constructed with.
NoOptions == <<>>
AutoLoadOptions ==
    [collapsed |-> FALSE, defaultUrl |-> UrlSpz, loadDefaultUrl |-> TRUE,
     flyTo |-> FALSE, defaultRotation |-> RefCallerRotation,
     defaultLongitude |-> 5, defaultLatitude |-> 6]

ConstructorOptions == {NoOptions, AutoLoadOptions}

\* Constructor arguments that give one option each, with a value that is not
\* its default (0, false and a caller's array among them).
SingleOptions ==
    {NoOptions, AutoLoadOptions,
     [position |-> "bottom-left"], [collapsed |-> FALSE], [defaultUrl |-> UrlGlb],
     [loadDefaultUrl |-> TRUE], [defaultOpacity |-> 0],
     [defaultRotation |-> RefCallerRotation],
     [defaultModelRotation |-> RefCallerRotation], [defaultScale |-> 0],
     [defaultLongitude |-> 5], [defaultLatitude |-> 6], [defaultAltitude |-> 3],
     [flyTo |-> FALSE], [flyToZoom |-> 0]}

\* map.getCenter() of the host map.
MapCenter == [lng |-> 7, lat |-> 8]

\* The placement overrides a caller passes to load / loadSplat / loadModel.
NoPlacement   == <<>>
ZeroPlacement == [longitude |-> 0, latitude |-> 0, altitude |-> 0]
FullPlacement == [longitude |-> 1, latitude |-> 2, altitude |-> 3,
                  rotation |-> <<10, 20, 30>>, scale |-> 2]

LoadOptions == {NoPlacement, ZeroPlacement, FullPlacement}

\* a ?? b for an optional key of an options object
Coalesce(o, key, fallback) == IF key \in DOMAIN o THEN o[key] ELSE fallback

\* a || b on numbers
OrElse(a, b) == IF a = 0 THEN b ELSE a

\* THREE.MathUtils.degToRad: deg * (PI / 180), kept as the exact multiple of PI.
DegToRad(deg) == [timesPi |-> deg, over |-> 180]

\* MTP.Creator.createMercatorRTCGroup(center, rotationRadians, scale): a new object.
CreateMercatorRTCGroup(h, center, rotation, scale) ==
    [handle |-> h, center |-> center,
     rotation |-> <<DegToRad(rotation[1]), DegToRad(rotation[2]), DegToRad(rotation[3])>>,
     scale |-> scale, children |-> <<>>]

\* rtcGroup.add(child)
GroupAdd(group, child) == [group EXCEPT !.children = Append(@, child)]

----------------------------------------------------------------------------
(* The registries *)

\* Mutant of Ids: the keys are listed newest first.
IdsNewestFirst(layers) == [i \in 1..Len(layers) |-> layers[Len(layers) + 1 - i].id]

\* Array.from(layers.keys()): the keys in insertion order.
Ids(layers) == [i \in 1..Len(layers) |-> layers[i].id]

Has(layers, id) == \E i \in 1..Len(layers) : layers[i].id = id

Get(layers, id) == layers[CHOOSE i \in 1..Len(layers) : layers[i].id = id]

\* Map.set: replaces the value of a present key in place, appends a new key.
SetLayer(layers, rec) ==
    IF Has(layers, rec.id)
    THEN [i \in 1..Len(layers) |-> IF layers[i].id = rec.id THEN rec ELSE layers[i]]
    ELSE Append(layers, rec)

RECURSIVE Delete(_, _)
Delete(layers, id) ==
    IF layers = <<>> THEN <<>>
    ELSE IF Head(layers).id = id THEN Tail(layers)
    ELSE <<Head(layers)>> \o Delete(Tail(layers), id)

SplatId(n) == [kind |-> "splat", n |-> n]
ModelId(n) == [kind |-> "model", n |-> n]

GetSplatIds == Ids(splatLayers)
GetModelIds == Ids(modelLayers)

\* getSplatInfo on a registry: <<>> for null, else <<info>>.
SplatInfoIn(layers, id) ==
    IF ~Has(layers, id) THEN <<>>
    ELSE LET layer == Get(layers, id)
         IN  <<[url |-> layer.url, longitude |-> layer.longitude,
                latitude |-> layer.latitude, altitude |-> layer.altitude]>>

GetSplatInfo(id) == SplatInfoIn(splatLayers, id)

----------------------------------------------------------------------------
(* Events and the outcome of an operation *)

\* _emit(event, extra): the payload handed to the subscribed handlers.
Event(type, extra) == Merge([type |-> type], extra)

\* How the last operation ended: a synchronous operation returned, a load
\* resolved with an id, rejected with an error, or is suspended at its await.
Returned(op)      == [op |-> op, outcome |-> "returned", value |-> <<>>]
Resolved(op, id)  == [op |-> op, outcome |-> "resolved", value |-> <<id>>]
Rejected(op, msg) == [op |-> op, outcome |-> "rejected", value |-> <<msg>>]

\* Mutant of Suspended: loadAsync is not awaited, the call resolves at once.
ResolvedEarly(op) == [op |-> op, outcome |-> "resolved", value |-> <<>>]

Suspended(op)     == [op |-> op, outcome |-> "pending", value |-> <<>>]

ErrMapNotInitialized == "Map not initialized"

\* `Failed to load: ${err.message}`
FailedToLoad(msg) == <<"Failed to load: ", msg>>

----------------------------------------------------------------------------
(* Removal.  The part of the control a removal works on is passed as a     *)
(* record k = [st, splat, model, scene, ev], so that removeAll can be the  *)
(* iteration of removeSplat / removeModel that the code is.                *)

Control == [st |-> st, splat |-> splatLayers, model |-> modelLayers,
            scene |-> sceneObjects, ev |-> <<>>]

\* Mutant of Recount: layerCount is counted down, not taken from the sizes.
RecountDecrement(s, splat, model) ==
    [s EXCEPT !.hasLayer = Len(splat) > 0 \/ Len(model) > 0,
              !.layerCount = @ - 1,
              !.status = <<>>]

\* hasLayer and layerCount as removeSplat / removeModel recompute them
Recount(s, splat, model) ==
    [s EXCEPT !.hasLayer = Len(splat) > 0 \/ Len(model) > 0,
              !.layerCount = Len(splat) + Len(model),
              !.status = <<>>]

\* Mutant of RemoveSplatIn: the guard tests only the scene, so an unknown id
\* still goes through the recount and the event.
RemoveSplatUnguarded(k, layerId, mapScene) ==
    IF ~mapScene THEN k
    ELSE LET splat == Delete(k.splat, layerId)
         IN  [k EXCEPT !.splat = splat,
                       !.st = Recount(@, splat, k.model),
                       !.ev = Append(@, Event("splatremove", [splatId |-> layerId]))]

RemoveSplatIn(k, layerId, mapScene) ==
    IF ~Has(k.splat, layerId) \/ ~mapScene THEN k
    ELSE LET layer == Get(k.splat, layerId)
             splat == Delete(k.splat, layerId)
         IN  [k EXCEPT !.scene = @ \ {layer.rtcGroup},
                       !.splat = splat,
                       !.st = Recount(@, splat, k.model),
                       !.ev = Append(@, Event("splatremove", [splatId |-> layerId]))]

\* Mutant of RemoveModelIn: the group is not taken out of the scene.
RemoveModelKeepsObject(k, layerId, mapScene) ==
    IF ~Has(k.model, layerId) \/ ~mapScene THEN k
    ELSE LET model == Delete(k.model, layerId)
         IN  [k EXCEPT !.model = model,
                       !.st = Recount(@, k.splat, model),
                       !.ev = Append(@, Event("modelremove", [modelId |-> layerId]))]

RemoveModelIn(k, layerId, mapScene) ==
    IF ~Has(k.model, layerId) \/ ~mapScene THEN k
    ELSE LET layer == Get(k.model, layerId)
             model == Delete(k.model, layerId)
         IN  [k EXCEPT !.scene = @ \ {layer.rtcGroup},
                       !.model = model,
                       !.st = Recount(@, k.splat, model),
                       !.ev = Append(@, Event("modelremove", [modelId |-> layerId]))]

\* for (const layerId of keys) removeSplat(layerId)
RECURSIVE RemoveSplatsIn(_, _, _)
RemoveSplatsIn(k, ids, mapScene) ==
    IF ids = <<>> THEN k
    ELSE RemoveSplatsIn(RemoveSplatIn(k, Head(ids), mapScene), Tail(ids), mapScene)

RECURSIVE RemoveModelsIn(_, _, _)
RemoveModelsIn(k, ids, mapScene) ==
    IF ids = <<>> THEN k
    ELSE RemoveModelsIn(RemoveModelIn(k, Head(ids), mapScene), Tail(ids), mapScene)

\* Mutant of RemoveAllLayersIn: the loop over the models is left out.
RemoveOnlySplatsIn(k, mapScene) == RemoveSplatsIn(k, Ids(k.splat), mapScene)

RemoveAllLayersIn(k, mapScene) ==
    LET k1 == RemoveSplatsIn(k, Ids(k.splat), mapScene)
    IN  RemoveModelsIn(k1, Ids(k1.model), mapScene)

RemoveAllSplatsIn(k, mapScene) == RemoveAllLayersIn(k, mapScene)

RemoveAllModelsIn(k, mapScene) == RemoveModelsIn(k, Ids(k.model), mapScene)

\* Writes a record k back to the control, as the result of operation op.
Removed(k, op) ==
    /\ st' = k.st
    /\ splatLayers' = k.splat
    /\ modelLayers' = k.model
    /\ sceneObjects' = k.scene
    /\ emitted' = k.ev
    /\ hist' = [hist EXCEPT !.removed = @ + (Len(splatLayers) - Len(k.splat))]
    /\ last' = Returned(op)

\* The ids a caller may pass to a removal: issued or not, of either kind.
RemovalIds == {SplatId(n) : n \in 0..(MaxLoads - 1)} \cup {ModelId(n) : n \in 0..(MaxLoads - 1)}

RemoveSplat(layerId) ==
    /\ Removed(RemoveSplatIn(Control, layerId, mounted), "removeSplat")
    /\ UNCHANGED <<mounted, options, heap, layerCounter, modelCounter, idlePending,
                   pending, nGroups, returned>>

RemoveModel(layerId) ==
    /\ Removed(RemoveModelIn(Control, layerId, mounted), "removeModel")
    /\ UNCHANGED <<mounted, options, heap, layerCounter, modelCounter, idlePending,
                   pending, nGroups, returned>>

RemoveAllSplats ==
    /\ Removed(RemoveAllSplatsIn(Control, mounted), "removeAllSplats")
    /\ UNCHANGED <<mounted, options, heap, layerCounter, modelCounter, idlePending,
                   pending, nGroups, returned>>

RemoveAllModels ==
    /\ Removed(RemoveAllModelsIn(Control, mounted), "removeAllModels")
    /\ UNCHANGED <<mounted, options, heap, layerCounter, modelCounter, idlePending,
                   pending, nGroups, returned>>

----------------------------------------------------------------------------
(* Handlers and dispatch *)

\* The handlers a caller subscribes: two that return, one that assigns
\* event.state.layerCount, one that throws.
HandlerA      == "a"
HandlerB      == "b"
HandlerWriter == "writer"
HandlerThrows == "thrower"

Handlers == {HandlerA, HandlerB, HandlerWriter, HandlerThrows}

\* The event kinds handlers are subscribed to here.
PanelKinds == {"expand", "collapse"}

\* Handlers a kind may hold at a time (bounds on()).
MaxHandlers == 2

\* The event kinds of the loads.
LoadKinds == {"splatload", "modelload"}

\* The event kinds of the removals.
RemoveKinds == {"splatremove", "modelremove"}

\* A handler of a remove event that unsubscribes itself and calls loadSplat.
HandlerLoads == "loader"

NoHandlers == [kind \in PanelKinds \cup LoadKinds \cup RemoveKinds |-> <<>>]

IsSubscribed(hs, h) == \E i \in 1..Len(hs) : hs[i] = h

\* Set.delete on the handlers of a kind
RECURSIVE Without(_, _)
Without(hs, h) ==
    IF hs = <<>> THEN <<>>
    ELSE IF Head(hs) = h THEN Tail(hs)
    ELSE <<Head(hs)>> \o Without(Tail(hs), h)

\* What handler h does to the state object of the payload it is given.
HandlerWrites(h, s) ==
    IF h = HandlerWriter THEN [s EXCEPT !.layerCount = 9] ELSE s

\* payload.state is this._state itself: what a handler wrote to it is the
\* control's state from then on.
PayloadState(s, written) == written

\* for (const handler of handlers) handler(payload): the handlers still to
\* call, the control's state, the event type and the calls made so far.  A
\* handler that throws ends the loop.
RECURSIVE DispatchTo(_, _, _, _)
DispatchTo(hs, s, type, done) ==
    IF hs = <<>> THEN [st |-> s, calls |-> done, thrown |-> FALSE]
    ELSE LET h == Head(hs)
             c == Append(done, [handler |-> h, type |-> type, state |-> s])
         IN  IF h = HandlerThrows
             THEN [st |-> s, calls |-> c, thrown |-> TRUE]
             ELSE DispatchTo(Tail(hs), PayloadState(s, HandlerWrites(h, s)), type, c)

\* _emit(type) with the control's state s
Emit(s, type) == DispatchTo(eventHandlers[type], s, type, <<>>)

\* No _emit call: nothing dispatched.
NoEmit(s) == [st |-> s, calls |-> <<>>, thrown |-> FALSE]

\* An operation that a handler's exception ended.
Threw(op) == [op |-> op, outcome |-> "threw", value |-> <<HandlerThrows>>]

\* Mutant of OnHandlers: the handler is put in front.
OnHandlersFirst(hs, h) == IF IsSubscribed(hs, h) THEN hs ELSE <<h>> \o hs

\* Set.add: a handler already in the set stays where it is.
OnHandlers(hs, h) == IF IsSubscribed(hs, h) THEN hs ELSE Append(hs, h)

\* Mutant of OffHandlers: the set of the kind is cleared.
OffHandlersAll(hs, h) == <<>>

OffHandlers(hs, h) == Without(hs, h)

\* An operation that reaches no callback of a layer adapter.
NoAdapter == UNCHANGED changeCallbacks /\ changes' = <<>>

On(kind, h) ==
    /\ IsSubscribed(eventHandlers[kind], h) \/ Len(eventHandlers[kind]) < MaxHandlers
    /\ eventHandlers' = [eventHandlers EXCEPT ![kind] = OnHandlers(@, h)]
    /\ calls' = <<>>
    /\ emitted' = <<>>
    /\ last' = Returned("on")
    /\ NoAdapter
    /\ UNCHANGED <<mounted, options, st, heap, splatLayers, modelLayers, layerCounter,
                   modelCounter, sceneObjects, idlePending, pending, nGroups,
                   returned, hist>>

Off(kind, h) ==
    /\ eventHandlers' = [eventHandlers EXCEPT ![kind] = OffHandlers(@, h)]
    /\ calls' = <<>>
    /\ emitted' = <<>>
    /\ last' = Returned("off")
    /\ NoAdapter
    /\ UNCHANGED <<mounted, options, st, heap, splatLayers, modelLayers, layerCounter,
                   modelCounter, sceneObjects, idlePending, pending, nGroups,
                   returned, hist>>

\* The operations of the other sections are written for a control on which
\* no handler is subscribed: they leave eventHandlers and calls alone.
Quiet == UNCHANGED <<eventHandlers, calls>> /\ NoAdapter

\* An operation that calls no subscribed handler.
Silent == UNCHANGED eventHandlers /\ calls' = <<>> /\ NoAdapter

----------------------------------------------------------------------------
(* The panel *)

ExpandState(s) == IF s.collapsed THEN [s EXCEPT !.collapsed = FALSE] ELSE s

\* Mutant of ExpandEvents: the event is emitted outside the if.
ExpandEventsAlways(s) == <<Event("expand", <<>>)>>

ExpandEvents(s) == IF s.collapsed THEN <<Event("expand", <<>>)>> ELSE <<>>

\* Mutant of CollapseState: the assignment of the flag is missing.
CollapseStateKept(s) == s

CollapseState(s) == IF ~s.collapsed THEN [s EXCEPT !.collapsed = TRUE] ELSE s
CollapseEvents(s) == IF ~s.collapsed THEN <<Event("collapse", <<>>)>> ELSE <<>>

\* expand() / collapse() with their dispatch: the state is set, then _emit runs.
ExpandOn(s)   == IF s.collapsed THEN Emit(ExpandState(s), "expand") ELSE NoEmit(s)
CollapseOn(s) == IF ~s.collapsed THEN Emit(CollapseState(s), "collapse") ELSE NoEmit(s)

\* The control after a panel operation op that ran dispatch d.
Dispatched(d, op) ==
    /\ st' = d.st
    /\ calls' = d.calls
    /\ last' = IF d.thrown THEN Threw(op) ELSE Returned(op)
    /\ UNCHANGED eventHandlers
    /\ NoAdapter

Expand ==
    /\ Dispatched(ExpandOn(st), "expand")
    /\ emitted' = ExpandEvents(st)
    /\ UNCHANGED <<mounted, options, heap, splatLayers, modelLayers, layerCounter,
                   modelCounter, sceneObjects, idlePending, pending, nGroups,
                   returned, hist>>

Collapse ==
    /\ Dispatched(CollapseOn(st), "collapse")
    /\ emitted' = CollapseEvents(st)
    /\ UNCHANGED <<mounted, options, heap, splatLayers, modelLayers, layerCounter,
                   modelCounter, sceneObjects, idlePending, pending, nGroups,
                   returned, hist>>

Toggle ==
    /\ Dispatched(IF st.collapsed THEN ExpandOn(st) ELSE CollapseOn(st), "toggle")
    /\ emitted' = IF st.collapsed THEN ExpandEvents(st) ELSE CollapseEvents(st)
    /\ UNCHANGED <<mounted, options, heap, splatLayers, modelLayers, layerCounter,
                   modelCounter, sceneObjects, idlePending, pending, nGroups,
                   returned, hist>>

\* The partial options a caller passes to update().
UpdateOptions == {[collapsed |-> TRUE], [collapsed |-> FALSE]}

\* Partial options without `collapsed`.
UpdateOthers == {[flyTo |-> FALSE], [defaultScale |-> 2, defaultUrl |-> UrlGlb]}

\* Mutant of Update: the assignment of the flag is missing.
UpdateOptionsOnly(o) ==
    /\ options' = Merge(options, o)
    /\ st' = st
    /\ emitted' = <<>>
    /\ last' = Returned("update")
    /\ UNCHANGED <<mounted, heap, splatLayers, modelLayers, layerCounter,
                   modelCounter, sceneObjects, idlePending, pending, nGroups,
                   returned, hist>>

\* Mutant of Update: a change of the flag is reported like expand() and
\* collapse() report it.
UpdateEmits(o) ==
    /\ options' = Merge(options, o)
    /\ st' = IF "collapsed" \in DOMAIN o THEN [st EXCEPT !.collapsed = o.collapsed] ELSE st
    /\ emitted' = IF "collapsed" \in DOMAIN o /\ o.collapsed # st.collapsed
                  THEN <<Event(IF o.collapsed THEN "collapse" ELSE "expand", <<>>)>>
                  ELSE <<>>
    /\ last' = Returned("update")
    /\ UNCHANGED <<mounted, heap, splatLayers, modelLayers, layerCounter,
                   modelCounter, sceneObjects, idlePending, pending, nGroups,
                   returned, hist>>

Update(o) ==
    /\ options' = Merge(options, o)
    /\ st' = IF "collapsed" \in DOMAIN o THEN [st EXCEPT !.collapsed = o.collapsed] ELSE st
    /\ emitted' = <<>>
    /\ last' = Returned("update")
    /\ UNCHANGED <<mounted, heap, splatLayers, modelLayers, layerCounter,
                   modelCounter, sceneObjects, idlePending, pending, nGroups,
                   returned, hist>>

----------------------------------------------------------------------------
(* Loading.  The steps of a load that call into a collaborator (the scene  *)
(* bridge, the decoder, the host map, the subscribed handlers) can throw;  *)
(* the parameter f names the step that throws in this call, "none" when    *)
(* none does.                                                              *)

FailNone    == "none"
FailCreate  == "createMercatorRTCGroup"
FailDecode  == "loadAsync"
FailAttach  == "addObject"
FailFlyTo   == "flyTo"
FailHandler == "handler"

SplatFailures  == {FailNone, FailAttach, FailFlyTo, FailHandler}
StartFailures  == {FailNone, FailCreate}
SettleFailures == {FailNone, FailDecode, FailFlyTo, FailHandler}
Failures       == SplatFailures \cup StartFailures

\* The placement a load uses: the caller's value, else the state's, else
\* the map center (longitude, latitude) or 0 (altitude).
\* Mutant of PlaceLongitude: || in place of ??, so an explicit 0 is dropped.
PlaceLongitudeFalsy(o, s) ==
    OrElse(Coalesce(o, "longitude", 0), OrElse(s.longitude, MapCenter.lng))

PlaceLongitude(o, s) == Coalesce(o, "longitude", OrElse(s.longitude, MapCenter.lng))
PlaceLatitude(o, s)  == Coalesce(o, "latitude", OrElse(s.latitude, MapCenter.lat))
PlaceAltitude(o, s)  == Coalesce(o, "altitude", OrElse(s.altitude, 0))
PlaceScale(o, s)     == Coalesce(o, "scale", s.scale)

\* Mutant of ModelRotation: the fallback is the splat default rotation.
ModelRotationSplatDefault(o, opts, hp) == Coalesce(o, "rotation", hp[opts.defaultRotation])

SplatRotation(o, s, hp)    == Coalesce(o, "rotation", hp[s.rotation])
ModelRotation(o, opts, hp) == Coalesce(o, "rotation", hp[opts.defaultModelRotation])

\* The state a load sets before its try block.
Loading(s, url, o, status) ==
    [s EXCEPT !.url = url, !.loading = TRUE, !.error = <<>>, !.status = <<status>>,
              !.longitude = PlaceLongitude(o, s),
              !.latitude = PlaceLatitude(o, s),
              !.altitude = PlaceAltitude(o, s)]

\* Mutant of Loaded: layerCount is counted up, not taken from the sizes.
LoadedIncrement(s, url, splat, model) ==
    [s EXCEPT !.hasLayer = TRUE, !.layerCount = @ + 1,
              !.loading = FALSE, !.status = <<"Loaded: ", GetFilename(url)>>]

\* Mutant of Loaded: loading is not set back.
LoadedStillLoading(s, url, splat, model) ==
    [s EXCEPT !.hasLayer = TRUE, !.layerCount = Len(splat) + Len(model),
              !.status = <<"Loaded: ", GetFilename(url)>>]

\* The state a load sets on success.
Loaded(s, url, splat, model) ==
    [s EXCEPT !.hasLayer = TRUE, !.layerCount = Len(splat) + Len(model),
              !.loading = FALSE, !.status = <<"Loaded: ", GetFilename(url)>>]

\* Mutant of Caught: loading is not set back.
CaughtStillLoading(s, msg) == [s EXCEPT !.error = FailedToLoad(msg)]

\* The catch block of loadSplat / loadModel.
Caught(s, msg) == [s EXCEPT !.loading = FALSE, !.error = FailedToLoad(msg)]
CaughtEvents(ev, msg) == Append(ev, Event("error", [error |-> FailedToLoad(msg)]))

\* The id a load gives its record, and the counter after it.
\* Mutant of NewSplatId: every splat gets the id splat-0.
NewSplatIdFixed(counter) == SplatId(0)

NewSplatId(counter) == SplatId(counter)
NewModelId(counter) == ModelId(counter)

\* Mutant of NextCounter: the counter is not advanced.
StuckCounter(counter) == counter

NextCounter(counter) == counter + 1

\* loadSplat(url, o) on a mounted control, with step f throwing: the control
\* after the call, as [st, splat, scene, counter, groups, ev, last].
LoadSplatOn(url, o, f) ==
    LET s1    == Loading(st, url, o, "Loading splat...")
        lng   == PlaceLongitude(o, st)
        lat   == PlaceLatitude(o, st)
        alt   == PlaceAltitude(o, st)
        scale == PlaceScale(o, st)
        mesh  == [url |-> url, scale |-> scale]
        group == GroupAdd(CreateMercatorRTCGroup(nGroups, <<lng, lat, alt>>,
                              SplatRotation(o, st, heap), scale), mesh)
        id    == NewSplatId(layerCounter)
        splat == SetLayer(splatLayers,
                     [id |-> id, url |-> url, mesh |-> mesh, rtcGroup |-> group,
                      longitude |-> lng, latitude |-> lat, altitude |-> alt])
        s2    == Loaded(s1, url, splat, modelLayers)
        load  == <<Event("splatload", [url |-> url, splatId |-> id])>>
        base  == [st |-> s1, splat |-> splatLayers, scene |-> sceneObjects,
                  counter |-> layerCounter, groups |-> nGroups, ev |-> <<>>,
                  issued |-> <<>>, last |-> Rejected("loadSplat", f)]
    IN  CASE f = FailAttach ->
               [base EXCEPT !.st = Caught(s1, f), !.ev = CaughtEvents(<<>>, f),
                            !.groups = nGroups + 1]
          [] f = FailFlyTo ->
               [base EXCEPT !.st = Caught(s1, f), !.ev = CaughtEvents(<<>>, f),
                            !.groups = nGroups + 1,
                            !.scene = sceneObjects \cup {group},
                            !.splat = splat, !.issued = <<id>>,
                            !.counter = NextCounter(layerCounter)]
          [] f = FailHandler ->
               [base EXCEPT !.st = Caught(s2, f), !.ev = CaughtEvents(load, f),
                            !.groups = nGroups + 1,
                            !.scene = sceneObjects \cup {group},
                            !.splat = splat, !.issued = <<id>>,
                            !.counter = NextCounter(layerCounter)]
          [] OTHER ->
               [base EXCEPT !.st = s2, !.ev = load,
                            !.groups = nGroups + 1,
                            !.scene = sceneObjects \cup {group},
                            !.splat = splat, !.issued = <<id>>,
                            !.counter = NextCounter(layerCounter),
                            !.last = Resolved("loadSplat", id)]

\* Mutant of LoadUnmounted: the test of _map and _mapScene stands inside the
\* try block, so the catch block handles its error.
LoadUnmountedCaught(op) ==
    /\ ~mounted
    /\ last' = Rejected(op, ErrMapNotInitialized)
    /\ st' = Caught(st, ErrMapNotInitialized)
    /\ emitted' = CaughtEvents(<<>>, ErrMapNotInitialized)
    /\ UNCHANGED <<mounted, options, heap, splatLayers, modelLayers, layerCounter,
                   modelCounter, sceneObjects, pending, nGroups,
                   returned, hist>>

\* A load called while _map or _mapScene is not set: throws before anything else.
LoadUnmounted(op) ==
    /\ ~mounted
    /\ last' = Rejected(op, ErrMapNotInitialized)
    /\ emitted' = <<>>
    /\ UNCHANGED <<mounted, options, st, heap, splatLayers, modelLayers, layerCounter,
                   modelCounter, sceneObjects, pending, nGroups,
                   returned, hist>>

LoadSplatCall(url, o, f) ==
    \/ LoadUnmounted("loadSplat") /\ f = FailNone
    \/ /\ mounted
       /\ nGroups < MaxLoads
       /\ f \in SplatFailures
       /\ f = FailFlyTo => options.flyTo
       /\ LET r == LoadSplatOn(url, o, f)
          IN  /\ st' = r.st
              /\ splatLayers' = r.splat
              /\ sceneObjects' = r.scene
              /\ layerCounter' = r.counter
              /\ nGroups' = r.groups
              /\ emitted' = r.ev
              /\ last' = r.last
              /\ hist' = [hist EXCEPT
                     !.loaded = @ + (IF r.last.outcome = "resolved" THEN 1 ELSE 0),
                     !.splatIds = @ \o r.issued]
       /\ UNCHANGED <<mounted, options, heap, modelLayers, modelCounter,
                      pending, returned>>

\* loadModel(url, o) up to `await this._gltfLoader.loadAsync(url)`.
LoadModelCall(url, o, f) ==
    \/ LoadUnmounted("loadModel") /\ f = FailNone
    \/ /\ mounted
       /\ nGroups < MaxLoads
       /\ f \in StartFailures
       /\ LET s1    == Loading(st, url, o, "Loading model...")
              lng   == PlaceLongitude(o, st)
              lat   == PlaceLatitude(o, st)
              alt   == PlaceAltitude(o, st)
              scale == PlaceScale(o, st)
              group == CreateMercatorRTCGroup(nGroups, <<lng, lat, alt>>,
                           ModelRotation(o, options, heap), scale)
          IN  IF f = FailCreate
              THEN /\ st' = Caught(s1, f)
                   /\ emitted' = CaughtEvents(<<>>, f)
                   /\ last' = Rejected("loadModel", f)
                   /\ UNCHANGED <<pending, nGroups>>
              ELSE /\ st' = s1
                   /\ emitted' = <<>>
                   /\ last' = Suspended("loadModel")
                   /\ nGroups' = nGroups + 1
                   /\ pending' = pending \cup
                          {[url |-> url, rtcGroup |-> group,
                            longitude |-> lng, latitude |-> lat, altitude |-> alt,
                            scale |-> scale]}
       /\ UNCHANGED <<mounted, options, heap, splatLayers, modelLayers, layerCounter,
                      modelCounter, sceneObjects, returned,
                      hist>>

\* loadModel from the answer of loadAsync to the end of the call.  With the
\* control unmounted, this._mapScene.addObject throws a TypeError.
LoadModelOn(p, f) ==
    LET scene == [url |-> p.url, scale |-> <<p.scale, -p.scale, p.scale>>]
        group == GroupAdd(p.rtcGroup, scene)
        id    == NewModelId(modelCounter)
        model == SetLayer(modelLayers,
                     [id |-> id, url |-> p.url, scene |-> scene, rtcGroup |-> group,
                      longitude |-> p.longitude, latitude |-> p.latitude,
                      altitude |-> p.altitude])
        s2    == Loaded(st, p.url, splatLayers, model)
        load  == <<Event("modelload", [url |-> p.url, modelId |-> id])>>
        base  == [st |-> st, model |-> modelLayers, scene |-> sceneObjects,
                  counter |-> modelCounter, ev |-> <<>>,
                  issued |-> <<>>, last |-> Rejected("loadModel", f)]
    IN  CASE f = FailDecode ->
               [base EXCEPT !.st = Caught(st, f), !.ev = CaughtEvents(<<>>, f)]
          [] ~mounted ->
               [base EXCEPT !.st = Caught(st, "TypeError"),
                            !.ev = CaughtEvents(<<>>, "TypeError"),
                            !.last = Rejected("loadModel", "TypeError")]
          [] f = FailFlyTo ->
               [base EXCEPT !.st = Caught(st, f), !.ev = CaughtEvents(<<>>, f),
                            !.scene = sceneObjects \cup {group},
                            !.model = model, !.issued = <<id>>,
                            !.counter = NextCounter(modelCounter)]
          [] f = FailHandler ->
               [base EXCEPT !.st = Caught(s2, f), !.ev = CaughtEvents(load, f),
                            !.scene = sceneObjects \cup {group},
                            !.model = model, !.issued = <<id>>,
                            !.counter = NextCounter(modelCounter)]
          [] OTHER ->
               [base EXCEPT !.st = s2, !.ev = load,
                            !.scene = sceneObjects \cup {group},
                            !.model = model, !.issued = <<id>>,
                            !.counter = NextCounter(modelCounter),
                            !.last = Resolved("loadModel", id)]

LoadModelSettle(p, f) ==
    /\ p \in pending
    /\ f \in SettleFailures
    /\ ~mounted => f \in {FailNone, FailDecode}
    /\ f = FailFlyTo => options.flyTo
    /\ LET r == LoadModelOn(p, f)
       IN  /\ st' = r.st
           /\ modelLayers' = r.model
           /\ sceneObjects' = r.scene
           /\ modelCounter' = r.counter
           /\ emitted' = r.ev
           /\ last' = r.last
           /\ hist' = [hist EXCEPT !.modelIds = @ \o r.issued]
    /\ pending' = pending \ {p}
    /\ UNCHANGED <<mounted, options, heap, splatLayers, layerCounter, idlePending,
                   nGroups, returned>>

\* Mutant of RegisteredAtEmit: the event is emitted before the record is
\* inserted.
RegisteredBeforeInsert(before, after) == Ids(before)

\* What getSplatIds() (or the keys of the model registry) gives a handler of
\* the load event: the registry was `before` when the call began and is
\* `after` since the insertion, which comes before _emit.
RegisteredAtEmit(before, after) == Ids(after)

\* The handlers of `kind` during a load that runs with step f throwing: they
\* are called when the load emitted its event, with the state s the load has
\* set by then; f is FailHandler exactly when one of them throws.
Hearing(kind, f, s, before, after) ==
    LET d  == DispatchTo(eventHandlers[kind], s, kind, <<>>)
        ev == SelectSeq(emitted', LAMBDA e : e.type = kind)
    IN  /\ IF ev = <<>>
           THEN calls' = <<>>
           ELSE /\ d.thrown <=> (f = FailHandler)
                /\ calls' = [i \in 1..Len(d.calls) |->
                                Merge(d.calls[i],
                                      [event |-> ev[1],
                                       registered |-> RegisteredAtEmit(before, after)])]
        /\ UNCHANGED eventHandlers
        /\ NoAdapter

\* load(): gltf / glb go to loadModel with the model rotation default filled
\* in, everything else goes to loadSplat.
LoadRoute(url, o, f) ==
    IF IsModelUrl(url)
    THEN /\ f \in StartFailures
         /\ LoadModelCall(url,
                IF "rotation" \in DOMAIN o THEN o
                ELSE Merge(o, [rotation |-> heap[options.defaultModelRotation]]), f)
    ELSE LoadSplatCall(url, o, f)

LoadSplat(url, o, f) == LoadSplatCall(url, o, f) /\ UNCHANGED idlePending

LoadModel(url, o, f) == LoadModelCall(url, o, f) /\ UNCHANGED idlePending

Load(url, o, f) == LoadRoute(url, o, f) /\ UNCHANGED idlePending

\* loadSplat(url, o) on a control with subscribed handlers.
LoadSplatHeard(url, o) ==
    \E f \in SplatFailures :
        /\ LoadSplat(url, o, f)
        /\ Hearing("splatload", f,
                   Loaded(Loading(st, url, o, "Loading splat..."), url,
                          splatLayers', modelLayers),
                   splatLayers, splatLayers')

\* The rest of a suspended loadModel on a control with subscribed handlers.
LoadModelHeard(p) ==
    \E f \in SettleFailures :
        /\ LoadModelSettle(p, f)
        /\ Hearing("modelload", f, Loaded(st, p.url, splatLayers, modelLayers'),
                   modelLayers, modelLayers')

----------------------------------------------------------------------------
(* Mounting *)

\* The idle listener of onAdd.  map.once registers it; the map drops a once
\* listener when it calls it; onRemove calls map.off on it.  A listener that
\* is taken off while the map is going through its idle listeners is still
\* called by that round, so a cancelled listener may run, on the unmounted
\* control.
ListenerNone       == "none"
ListenerRegistered == "registered"
ListenerCancelled  == "cancelled"

\* Mutant of ListenerCalled: the listener is registered with on(), not once().
ListenerKept(listener) == listener

\* The listener after the map has called it.
ListenerCalled(listener) == ListenerNone

\* The listener after onRemove.
ListenerOff(listener) ==
    IF listener = ListenerRegistered THEN ListenerCancelled ELSE ListenerNone

OnAdd ==
    /\ ~mounted
    /\ mounted' = TRUE
    /\ sceneObjects' = {}
    /\ idlePending' = IF options.loadDefaultUrl /\ options.defaultUrl # <<>>
                      THEN ListenerRegistered ELSE ListenerNone
    /\ emitted' = <<>>
    /\ last' = Returned("onAdd")
    /\ UNCHANGED <<options, st, heap, splatLayers, modelLayers, layerCounter,
                   modelCounter, pending, nGroups, returned, hist>>

\* The host map delivers the idle notification to the once-listener of onAdd.
\* Mutant of IdleHandlerActs: the handler does not test the map and scene.
IdleHandlerUnguarded(isMounted) == TRUE

\* if (this._map && this._mapScene)
IdleHandlerActs(isMounted) == isMounted

MapIdle(f) ==
    /\ idlePending # ListenerNone
    /\ idlePending' = ListenerCalled(idlePending)
    /\ IF IdleHandlerActs(mounted)
       THEN LoadRoute(options.defaultUrl, NoPlacement, f)
       ELSE /\ f = FailNone
            /\ emitted' = <<>>
            /\ last' = Returned("idle")
            /\ UNCHANGED <<mounted, options, st, heap, splatLayers, modelLayers,
                           layerCounter, modelCounter, sceneObjects, pending, nGroups,
                           returned, hist>>

OnRemove ==
    /\ mounted
    /\ LET k == RemoveAllLayersIn(Control, mounted)
       IN  /\ st' = k.st
           /\ splatLayers' = k.splat
           /\ modelLayers' = k.model
           /\ emitted' = k.ev
           /\ hist' = [hist EXCEPT !.removed = @ + (Len(splatLayers) - Len(k.splat))]
    /\ idlePending' = ListenerOff(idlePending)
    /\ sceneObjects' = {}
    /\ mounted' = FALSE
    /\ last' = Returned("onRemove")
    /\ UNCHANGED <<options, heap, layerCounter, modelCounter, pending, nGroups,
                   returned>>

\* loadSplat(url), without placement, called by a handler while the control
\* is k (its state, registries, scene, counter and handlers) and mounted.
LoadSplatIn(k, url) ==
    LET s1    == Loading(k.st, url, NoPlacement, "Loading splat...")
        lng   == PlaceLongitude(NoPlacement, k.st)
        lat   == PlaceLatitude(NoPlacement, k.st)
        alt   == PlaceAltitude(NoPlacement, k.st)
        scale == PlaceScale(NoPlacement, k.st)
        mesh  == [url |-> url, scale |-> scale]
        group == GroupAdd(CreateMercatorRTCGroup(k.groups, <<lng, lat, alt>>,
                              SplatRotation(NoPlacement, k.st, heap), scale), mesh)
        id    == NewSplatId(k.counter)
        splat == SetLayer(k.splat,
                     [id |-> id, url |-> url, mesh |-> mesh, rtcGroup |-> group,
                      longitude |-> lng, latitude |-> lat, altitude |-> alt])
    IN  [k EXCEPT !.st = Loaded(s1, url, splat, k.model),
                  !.splat = splat,
                  !.scene = @ \cup {group},
                  !.counter = NextCounter(@),
                  !.groups = @ + 1,
                  !.issued = Append(@, id),
                  !.ev = Append(@, Event("splatload", [url |-> url, splatId |-> id]))]

\* _emit of a remove event of `kind` on the control k: a subscribed
\* HandlerLoads takes itself off and loads a splat.
HeardRemove(k, kind) ==
    IF IsSubscribed(k.hs[kind], HandlerLoads)
    THEN LoadSplatIn([k EXCEPT !.hs[kind] = Without(@, HandlerLoads)], UrlSpz)
    ELSE k

\* for (const [layerId] of this._splatLayers) this.removeSplat(layerId): the
\* iterator of a Map is live, it also comes to the entries that are added
\* while the loop runs.
RECURSIVE RemoveSplatsLive(_)
RemoveSplatsLive(k) ==
    IF k.splat = <<>> THEN k
    ELSE RemoveSplatsLive(
             HeardRemove(RemoveSplatIn(k, Head(k.splat).id, TRUE), "splatremove"))

RECURSIVE RemoveModelsLive(_)
RemoveModelsLive(k) ==
    IF k.model = <<>> THEN k
    ELSE RemoveModelsLive(
             HeardRemove(RemoveModelIn(k, Head(k.model).id, TRUE), "modelremove"))

\* _removeAllLayers() with handlers subscribed to the remove events.
RemoveAllLayersLive(k) == RemoveModelsLive(RemoveSplatsLive(k))

\* onRemove() on a control with handlers subscribed to the remove events.
OnRemoveHeard ==
    /\ mounted
    /\ nGroups + Cardinality({kind \in RemoveKinds :
                                 IsSubscribed(eventHandlers[kind], HandlerLoads)})
           <= MaxLoads
    /\ LET k == RemoveAllLayersLive(
                    [st |-> st, splat |-> splatLayers, model |-> modelLayers,
                     scene |-> sceneObjects, ev |-> <<>>, counter |-> layerCounter,
                     groups |-> nGroups, issued |-> <<>>, hs |-> eventHandlers])
       IN  /\ st' = k.st
           /\ splatLayers' = k.splat
           /\ modelLayers' = k.model
           /\ layerCounter' = k.counter
           /\ nGroups' = k.groups
           /\ eventHandlers' = k.hs
           /\ emitted' = k.ev
           /\ hist' = [hist EXCEPT
                  !.loaded = @ + Len(k.issued),
                  !.removed = @ + (Len(splatLayers) + Len(k.issued) - Len(k.splat)),
                  !.splatIds = @ \o k.issued]
    /\ idlePending' = ListenerOff(idlePending)
    /\ sceneObjects' = {}
    /\ mounted' = FALSE
    /\ calls' = <<>>
    /\ NoAdapter
    /\ last' = Returned("onRemove")
    /\ UNCHANGED <<options, heap, modelCounter, pending, returned>>

----------------------------------------------------------------------------
(* getState and what a caller does with the value it returns *)

\* { ...this._state }
GetStateValue(s) == s

\* The state with its rotation array read through the heap.
Observed(s, hp) == [s EXCEPT !.rotation = hp[s.rotation]]

GetState ==
    /\ returned' = <<GetStateValue(st)>>
    /\ emitted' = <<>>
    /\ last' = Returned("getState")
    /\ UNCHANGED <<mounted, options, st, heap, splatLayers, modelLayers, layerCounter,
                   modelCounter, sceneObjects, idlePending, pending, nGroups,
                   hist>>

\* The caller assigns a field of the returned object.
WriteField ==
    /\ returned # <<>>
    /\ \/ returned' = <<[returned[1] EXCEPT !.collapsed = ~@]>>
       \/ returned' = <<[returned[1] EXCEPT !.layerCount = 9]>>
       \/ returned' = <<[returned[1] EXCEPT !.error = <<"edited">>]>>
    /\ emitted' = <<>>
    /\ last' = Returned("write")
    /\ UNCHANGED <<mounted, options, st, heap, splatLayers, modelLayers, layerCounter,
                   modelCounter, sceneObjects, idlePending, pending, nGroups,
                   hist>>

\* The caller assigns element i of the returned object's rotation array.
WriteRotation(i) ==
    /\ returned # <<>>
    /\ heap' = [heap EXCEPT ![returned[1].rotation][i] = 7]
    /\ emitted' = <<>>
    /\ last' = Returned("write")
    /\ UNCHANGED <<mounted, options, st, splatLayers, modelLayers, layerCounter,
                   modelCounter, sceneObjects, idlePending, pending, nGroups,
                   returned, hist>>

\* A synchronous operation returned the value v.
ReturnedValue(op, v) == [op |-> op, outcome |-> "returned", value |-> <<v>>]

\* getSplatIds()
GetSplatIdsCall ==
    /\ last' = ReturnedValue("getSplatIds", GetSplatIds)
    /\ emitted' = <<>>
    /\ UNCHANGED <<mounted, options, st, heap, splatLayers, modelLayers, layerCounter,
                   modelCounter, sceneObjects, idlePending, pending, nGroups,
                   returned, hist>>

\* getSplatInfo(layerId)
GetSplatInfoCall(layerId) ==
    /\ last' = ReturnedValue("getSplatInfo", [layerId |-> layerId, info |-> GetSplatInfo(layerId)])
    /\ emitted' = <<>>
    /\ UNCHANGED <<mounted, options, st, heap, splatLayers, modelLayers, layerCounter,
                   modelCounter, sceneObjects, idlePending, pending, nGroups,
                   returned, hist>>

\* The value typed into a rotation input of the expanded panel.
TypedRotation == 7

\* The X, Y or Z rotation input of the expanded panel changes: element i of
\* this._state.rotation is assigned.
RotationInput(i) ==
    /\ mounted /\ ~st.collapsed
    /\ heap' = [heap EXCEPT ![st.rotation][i] = TypedRotation]
    /\ emitted' = <<>>
    /\ last' = Returned("rotationInput")
    /\ UNCHANGED <<mounted, options, st, splatLayers, modelLayers, layerCounter,
                   modelCounter, sceneObjects, idlePending, pending, nGroups,
                   returned, hist>>

----------------------------------------------------------------------------
(* The control after construction, and its operations *)

\* new GaussianSplatControl(o)
Constructed(o) ==
    LET opts == Merge(DEFAULT_OPTIONS, o)
    IN  /\ options = opts
        /\ st = [collapsed |-> opts.collapsed, url |-> opts.defaultUrl,
                 loading |-> FALSE, error |-> <<>>, status |-> <<>>,
                 hasLayer |-> FALSE, layerCount |-> 0,
                 opacity |-> opts.defaultOpacity, rotation |-> opts.defaultRotation,
                 scale |-> opts.defaultScale, longitude |-> opts.defaultLongitude,
                 latitude |-> opts.defaultLatitude, altitude |-> opts.defaultAltitude]
        /\ last = ReturnedValue("constructor", o)

\* getDefaultPosition()
GetDefaultPosition == options.position

GetDefaultPositionCall ==
    /\ last' = ReturnedValue("getDefaultPosition", GetDefaultPosition)
    /\ emitted' = <<>>
    /\ UNCHANGED <<mounted, options, st, heap, splatLayers, modelLayers, layerCounter,
                   modelCounter, sceneObjects, idlePending, pending, nGroups,
                   returned, hist>>

\* A control constructed with one of the arguments os; nothing is loaded or
\* mounted.
Built(os) ==
    /\ \E o \in os : Constructed(o)
    /\ mounted = FALSE
    /\ heap = InitialHeap
    /\ splatLayers = <<>>
    /\ modelLayers = <<>>
    /\ layerCounter = 0
    /\ modelCounter = 0
    /\ sceneObjects = {}
    /\ idlePending = ListenerNone
    /\ pending = {}
    /\ nGroups = 0
    /\ returned = <<>>
    /\ emitted = <<>>
    /\ calls = <<>>
    /\ hist = [loaded |-> 0, removed |-> 0, splatIds |-> <<>>, modelIds |-> <<>>]

\* The control alone: no handler is subscribed and there is no layer adapter.
Created(os) ==
    /\ Built(os)
    /\ eventHandlers = NoHandlers
    /\ changeCallbacks = <<>>
    /\ changes = <<>>

Init == Created(ConstructorOptions)

InitSingle == Created(SingleOptions)

\* Constructor arguments that differ in the rotation defaults.
RotationOptions == {NoOptions, AutoLoadOptions, [defaultModelRotation |-> RefCallerRotation]}

InitRotation == Created(RotationOptions)

----------------------------------------------------------------------------
(* The layer adapter *)

\* The four handlers _setupEventListeners subscribes on the control, one per
\* kind; each tests the id of the event (ids are non-empty strings) and goes
\* through _changeCallbacks.  _visibilityState is left out.
HandlerAdapter == "adapter"

AdapterKinds == LoadKinds \cup RemoveKinds

\* The callbacks a caller registers with onLayerChange: two that return and
\* one that calls, when it is invoked, the unsubscribe function it was given.
CallbackA    == "cbA"
CallbackB    == "cbB"
CallbackOnce == "once"

Callbacks == {CallbackA, CallbackB, CallbackOnce}

\* Entries _changeCallbacks may hold at a time (bounds onLayerChange).
MaxCallbacks == 2

\* new GaussianSplatLayerAdapter(control) on a control without handlers
AdapterHandlers ==
    [kind \in DOMAIN NoHandlers |->
        IF kind \in AdapterKinds THEN OnHandlers(NoHandlers[kind], HandlerAdapter)
        ELSE NoHandlers[kind]]

\* The adapter's handlers are subscribed on the control.
AdapterAttached ==
    \A kind \in AdapterKinds : IsSubscribed(eventHandlers[kind], HandlerAdapter)

\* The function onLayerChange returned for cb: indexOf(cb), then splice of
\* that entry.
Unsubscribed(cbs, cb) == Without(cbs, cb)

\* What the array is after callback cb ran.
CallbackRuns(cb, cbs) == IF cb = CallbackOnce THEN Unsubscribed(cbs, cb) ELSE cbs

\* _changeCallbacks.forEach((cb) => cb(change, id)): forEach reads the length
\* once and then calls, index by index, the entry the array holds there if it
\* still has one; `change` is what every callback is given, `done` the
\* invocations so far.
RECURSIVE ForEach(_, _, _, _, _)
ForEach(cbs, k, len, change, done) ==
    IF k > len THEN [cbs |-> cbs, changes |-> done]
    ELSE IF k > Len(cbs) THEN ForEach(cbs, k + 1, len, change, done)
    ELSE ForEach(CallbackRuns(cbs[k], cbs), k + 1, len, change,
                 Append(done, Merge([callback |-> cbs[k]], change)))

\* 'add' from the handlers of the load events, 'remove' from the others.
ChangeOf(type) == IF type \in LoadKinds THEN "add" ELSE "remove"

\* event.splatId / event.modelId
ChangedId(e) == IF e.type \in {"splatload", "splatremove"} THEN e.splatId ELSE e.modelId

\* The ids of the two registries when event e is emitted, from what they
\* were before: a load has inserted its record, a removal has deleted it.
IdsAt(ids, e) ==
    CASE e.type = "splatload"   -> [ids EXCEPT !.splat = Append(@, e.splatId)]
      [] e.type = "modelload"   -> [ids EXCEPT !.model = Append(@, e.modelId)]
      [] e.type = "splatremove" -> [ids EXCEPT !.splat = Without(@, e.splatId)]
      [] e.type = "modelremove" -> [ids EXCEPT !.model = Without(@, e.modelId)]
      [] OTHER -> ids

\* getLayerIds(): getSplatIds(), then the keys of _modelLayers
GetLayerIds(ids) == ids.splat \o ids.model

\* The adapter during an operation that emits the events evs, one after the
\* other, on a control whose registries held ids: the subscribed handler of
\* each kind goes through the callbacks.
RECURSIVE AdapterHears(_, _, _, _)
AdapterHears(evs, ids, cbs, done) ==
    IF evs = <<>> THEN [cbs |-> cbs, changes |-> done]
    ELSE LET e  == Head(evs)
             at == IdsAt(ids, e)
         IN  IF e.type \in AdapterKinds /\ IsSubscribed(eventHandlers[e.type], HandlerAdapter)
             THEN LET r == ForEach(cbs, 1, Len(cbs),
                                   [event |-> ChangeOf(e.type), layerId |-> ChangedId(e),
                                    layerIds |-> GetLayerIds(at)], done)
                  IN  AdapterHears(Tail(evs), at, r.cbs, r.changes)
             ELSE AdapterHears(Tail(evs), at, cbs, done)

\* The events of the last operation that a handler of the adapter is called with.
Heard(evs) ==
    SelectSeq(evs, LAMBDA e : /\ e.type \in AdapterKinds
                              /\ IsSubscribed(eventHandlers[e.type], HandlerAdapter))

\* An operation of the control while a layer adapter was constructed on it.
Adapted ==
    LET r == AdapterHears(emitted', [splat |-> Ids(splatLayers), model |-> Ids(modelLayers)],
                          changeCallbacks, <<>>)
    IN  /\ changeCallbacks' = r.cbs
        /\ changes' = r.changes
        /\ calls' = [i \in 1..Len(Heard(emitted')) |->
                        [handler |-> HandlerAdapter, type |-> Heard(emitted')[i].type]]
        /\ UNCHANGED eventHandlers

\* What an operation of the adapter leaves alone in the control.
ControlKept ==
    /\ emitted' = <<>>
    /\ calls' = <<>>
    /\ changes' = <<>>
    /\ UNCHANGED <<mounted, options, st, heap, splatLayers, modelLayers, layerCounter,
                   modelCounter, sceneObjects, idlePending, pending, nGroups,
                   returned, hist>>

\* onLayerChange(cb)
OnLayerChange(cb) ==
    /\ Len(changeCallbacks) < MaxCallbacks
    /\ changeCallbacks' = Append(changeCallbacks, cb)
    /\ last' = Returned("onLayerChange")
    /\ UNCHANGED eventHandlers
    /\ ControlKept

\* A call of the function that onLayerChange(cb) returned.
Unsubscribe(cb) ==
    /\ changeCallbacks' = Unsubscribed(changeCallbacks, cb)
    /\ last' = Returned("unsubscribe")
    /\ UNCHANGED eventHandlers
    /\ ControlKept

\* destroy()
Destroy ==
    /\ eventHandlers' = [kind \in DOMAIN eventHandlers |->
                            IF kind \in AdapterKinds
                            THEN OffHandlers(eventHandlers[kind], HandlerAdapter)
                            ELSE eventHandlers[kind]]
    /\ changeCallbacks' = <<>>
    /\ last' = Returned("destroy")
    /\ ControlKept

\* A control with a layer adapter constructed on it.
InitAdapter ==
    /\ Built({NoOptions})
    /\ eventHandlers = AdapterHandlers
    /\ changeCallbacks = <<>>
    /\ changes = <<>>

Next ==
    \/ OnAdd /\ Quiet
    \/ OnRemove /\ Quiet
    \/ \E f \in Failures : MapIdle(f) /\ Quiet
    \/ \E url \in RoutedUrls, o \in LoadOptions, f \in Failures : Load(url, o, f) /\ Quiet
    \/ \E url \in LoadUrls, o \in LoadOptions, f \in SplatFailures : LoadSplat(url, o, f) /\ Quiet
    \/ \E url \in LoadUrls, o \in LoadOptions, f \in StartFailures : LoadModel(url, o, f) /\ Quiet
    \/ \E p \in pending, f \in SettleFailures : LoadModelSettle(p, f) /\ Quiet
    \/ \E id \in RemovalIds : RemoveSplat(id) /\ Quiet
    \/ \E id \in RemovalIds : RemoveModel(id) /\ Quiet
    \/ RemoveAllSplats /\ Quiet
    \/ RemoveAllModels /\ Quiet

Spec == Init /\ [][Next]_vars

\* The panel operations and getState, on a control that may hold one splat.
NextPanel ==
    \/ OnAdd /\ Quiet
    \/ LoadSplat(UrlSpz, NoPlacement, FailNone) /\ Quiet
    \/ Expand
    \/ Collapse
    \/ Toggle
    \/ \E o \in UpdateOptions : Update(o) /\ Quiet
    \/ GetState /\ Quiet
    \/ WriteField /\ Quiet
    \/ \E i \in 1..3 : WriteRotation(i) /\ Quiet

SpecPanel == Init /\ [][NextPanel]_vars

\* load() over the urls of RouteUrls, on a control that is mounted and unmounted.
NextRoute ==
    \/ OnAdd /\ Quiet
    \/ OnRemove /\ Quiet
    \/ \E url \in RouteUrls : Load(url, NoPlacement, FailNone) /\ Quiet
    \/ \E p \in pending : LoadModelSettle(p, FailNone) /\ Quiet

SpecRoute == Init /\ [][NextRoute]_vars

\* Mounting, the auto-load, loadSplat and loadModel at the default placement
\* and the removals.
NextMount ==
    \/ OnAdd /\ Quiet
    \/ OnRemove /\ Quiet
    \/ \E f \in Failures : MapIdle(f) /\ Quiet
    \/ \E url \in LoadUrls, f \in SplatFailures : LoadSplat(url, NoPlacement, f) /\ Quiet
    \/ \E url \in LoadUrls, f \in StartFailures : LoadModel(url, NoPlacement, f) /\ Quiet
    \/ \E url \in LoadUrls, f \in Failures : Load(url, NoPlacement, f) /\ Quiet
    \/ \E p \in pending, f \in SettleFailures : LoadModelSettle(p, f) /\ Quiet
    \/ \E id \in RemovalIds : RemoveSplat(id) /\ Quiet
    \/ \E id \in RemovalIds : RemoveModel(id) /\ Quiet

SpecMount == Init /\ [][NextMount]_vars

\* Subscribing and unsubscribing handlers of the panel events, and the
\* panel operations that emit them.
NextEvents ==
    \/ \E kind \in PanelKinds, h \in Handlers : On(kind, h)
    \/ \E kind \in PanelKinds, h \in Handlers : Off(kind, h)
    \/ Expand
    \/ Collapse
    \/ Toggle
    \/ \E o \in UpdateOptions : Update(o) /\ Silent

SpecEvents == Init /\ [][NextEvents]_vars

\* getSplatIds and getSplatInfo between loads (which may fail) and removals.
NextRead ==
    \/ OnAdd /\ Quiet
    \/ OnRemove /\ Quiet
    \/ \E url \in LoadUrls, f \in Failures : Load(url, NoPlacement, f) /\ Quiet
    \/ \E p \in pending, f \in SettleFailures : LoadModelSettle(p, f) /\ Quiet
    \/ \E id \in RemovalIds : RemoveSplat(id) /\ Quiet
    \/ \E id \in RemovalIds : RemoveModel(id) /\ Quiet
    \/ GetSplatIdsCall /\ Quiet
    \/ \E id \in RemovalIds : GetSplatInfoCall(id) /\ Quiet

SpecRead == Init /\ [][NextRead]_vars

\* Controls constructed with the arguments of SingleOptions, and the
\* operations that read or change the configuration and the panel.
NextConstruct ==
    \/ GetDefaultPositionCall /\ Quiet
    \/ GetState /\ Quiet
    \/ Expand
    \/ Collapse
    \/ Toggle
    \/ \E o \in UpdateOptions : Update(o) /\ Quiet

SpecConstruct == InitSingle /\ [][NextConstruct]_vars

\* update() with and without `collapsed`, on a control that loads (and
\* fails to load) splats and whose panel is opened and closed.
NextUpdate ==
    \/ OnAdd /\ Quiet
    \/ \E f \in SplatFailures : LoadSplat(UrlSpz, NoPlacement, f) /\ Quiet
    \/ \E id \in RemovalIds : RemoveSplat(id) /\ Quiet
    \/ Expand
    \/ Collapse
    \/ \E o \in UpdateOptions \cup UpdateOthers : Update(o) /\ Quiet

SpecUpdate == Init /\ [][NextUpdate]_vars

\* Loads with and without a rotation of the caller, on controls whose state
\* rotation and model default rotation change between the loads.
NextRotate ==
    \/ OnAdd /\ Quiet
    \/ Expand
    \/ \E i \in 1..2 : RotationInput(i) /\ Quiet
    \/ Update([defaultModelRotation |-> RefDefaultRotation]) /\ Quiet
    \/ \E url \in LoadUrls, o \in {NoPlacement, FullPlacement} : Load(url, o, FailNone) /\ Quiet
    \/ \E o \in {NoPlacement, FullPlacement} : LoadSplat(UrlSpz, o, FailNone) /\ Quiet
    \/ \E o \in {NoPlacement, FullPlacement} : LoadModel(UrlGlb, o, FailNone) /\ Quiet
    \/ \E p \in pending : LoadModelSettle(p, FailNone) /\ Quiet

SpecRotate == InitRotation /\ [][NextRotate]_vars

\* Loads, failing and not, on a control with handlers subscribed to the
\* load events.
NextHeard ==
    \/ OnAdd /\ Silent
    \/ OnRemove /\ Silent
    \/ \E kind \in LoadKinds, h \in {HandlerA, HandlerThrows} : On(kind, h)
    \/ \E kind \in LoadKinds, h \in {HandlerA, HandlerThrows} : Off(kind, h)
    \/ LoadSplatHeard(UrlSpz, NoPlacement)
    \/ LoadModel(UrlGlb, NoPlacement, FailNone) /\ Silent
    \/ \E p \in pending : LoadModelHeard(p)
    \/ \E id \in RemovalIds : RemoveSplat(id) /\ Silent
    \/ \E id \in RemovalIds : RemoveModel(id) /\ Silent

SpecHeard == Init /\ [][NextHeard]_vars

\* Every kind of operation around registered records: loads at two
\* placements that succeed and fail, removals, unmounting, the panel,
\* update() and the queries.
NextFrame ==
    \/ OnAdd /\ Quiet
    \/ OnRemove /\ Quiet
    \/ \E url \in LoadUrls, o \in {NoPlacement, FullPlacement}, f \in {FailNone, FailFlyTo} :
          Load(url, o, f) /\ Quiet
    \/ \E p \in pending, f \in {FailNone, FailDecode} : LoadModelSettle(p, f) /\ Quiet
    \/ \E id \in {SplatId(0), ModelId(0)} : RemoveSplat(id) /\ Quiet
    \/ \E id \in {SplatId(0), ModelId(0)} : RemoveModel(id) /\ Quiet
    \/ Expand
    \/ Collapse
    \/ Toggle
    \/ Update([flyTo |-> FALSE]) /\ Quiet
    \/ GetSplatIdsCall /\ Quiet
    \/ GetSplatInfoCall(SplatId(0)) /\ Quiet

SpecFrame == Init /\ [][NextFrame]_vars

\* Unmounting a control that holds records and suspended model loads,
\* with handlers of the remove events that start a load.
NextUnmount ==
    \/ OnAdd /\ Silent
    \/ OnRemoveHeard
    \/ \E kind \in RemoveKinds : On(kind, HandlerLoads)
    \/ \E kind \in RemoveKinds : Off(kind, HandlerLoads)
    \/ \E url \in LoadUrls : Load(url, NoPlacement, FailNone) /\ Silent
    \/ \E p \in pending, f \in {FailNone, FailDecode} : LoadModelSettle(p, f) /\ Silent

SpecUnmount == Init /\ [][NextUnmount]_vars

\* Loads and removals on a control with a layer adapter, whose callbacks
\* are registered and unsubscribed, until destroy().
NextAdapter ==
    \/ OnAdd /\ Adapted
    \/ OnRemove /\ Adapted
    \/ \E url \in LoadUrls : Load(url, NoPlacement, FailNone) /\ Adapted
    \/ \E p \in pending, f \in {FailNone, FailDecode} : LoadModelSettle(p, f) /\ Adapted
    \/ \E id \in RemovalIds : RemoveSplat(id) /\ Adapted
    \/ \E id \in RemovalIds : RemoveModel(id) /\ Adapted
    \/ \E cb \in Callbacks : OnLayerChange(cb)
    \/ \E cb \in Callbacks : Unsubscribe(cb)
    \/ Destroy

SpecAdapter == InitAdapter /\ [][NextAdapter]_vars

----------------------------------------------------------------------------
(* Properties *)

EventTypes(ev) == [i \in 1..Len(ev) |-> ev[i].type]

Count(ev, type) == Cardinality({i \in 1..Len(ev) : ev[i].type = type})

StrictlyIncreasing(ids) == \A i, j \in 1..Len(ids) : i < j => ids[i].n < ids[j].n

\* C1: on a control, after any sequence of loads and removals, the length of
\* getSplatIds() is the number of splat loads that resolved minus the number
\* of splat removals that deleted a record.
C1_SplatCount == Len(GetSplatIds) = hist.loaded - hist.removed

\* C2: ids are splat-<n> / model-<n>; the numbers issued within a kind
\* strictly increase, so no id is issued twice, also not after its record
\* was removed; each counter counts the ids issued of its own kind only.
C2_IdsIncrease ==
    /\ StrictlyIncreasing(hist.splatIds)
    /\ StrictlyIncreasing(hist.modelIds)
    /\ \A i \in 1..Len(hist.splatIds) : hist.splatIds[i].kind = "splat"
    /\ \A i \in 1..Len(hist.modelIds) : hist.modelIds[i].kind = "model"
    /\ \A i \in 1..Len(splatLayers) :
          /\ \E j \in 1..Len(hist.splatIds) : hist.splatIds[j] = splatLayers[i].id
          /\ \A j \in 1..Len(splatLayers) : i # j => splatLayers[i].id # splatLayers[j].id
    /\ \A i \in 1..Len(modelLayers) :
          /\ \E j \in 1..Len(hist.modelIds) : hist.modelIds[j] = modelLayers[i].id
          /\ \A j \in 1..Len(modelLayers) : i # j => modelLayers[i].id # modelLayers[j].id
    /\ layerCounter = Len(hist.splatIds)
    /\ modelCounter = Len(hist.modelIds)

\* C2 witness: splat-1 was issued by the last load, after splat-0 was removed.
C2_Witness ==
    /\ hist.splatIds = <<SplatId(0), SplatId(1)>>
    /\ GetSplatIds = <<SplatId(1)>>
    /\ last = Resolved("loadSplat", SplatId(1))
    /\ Len(hist.modelIds) = 0

\* C3: when a load rejects, both id listings are what they were before it.
C3_RejectedLoadAddsNoRecord ==
    [][last'.outcome = "rejected" =>
          GetSplatIds' = GetSplatIds /\ GetModelIds' = GetModelIds]_vars

\* C4: a load rejects exactly when it emits an `error` event.
C4_RejectedIffErrorEvent ==
    (last.outcome = "rejected") <=> (Count(emitted, "error") > 0)

\* C5: right after a load rejects, getState().error is non-null and
\* getState().loading is false.
C5_RejectedSetsError ==
    last.outcome = "rejected" => st.error # <<>> /\ ~st.loading

\* C6: removeSplat / removeModel with an id that is not registered for that
\* kind returns, changes nothing of the control, detaches nothing and emits
\* nothing, in every state.
C6_UnknownIdRemovalIsNoOp ==
    [][\A id \in RemovalIds :
          (\/ last'.op = "removeSplat" /\ ~Has(splatLayers, id) /\ RemoveSplat(id)
           \/ last'.op = "removeModel" /\ ~Has(modelLayers, id) /\ RemoveModel(id))
          => /\ UNCHANGED <<mounted, options, st, splatLayers, modelLayers,
                            layerCounter, modelCounter, sceneObjects, pending>>
             /\ emitted' = <<>>
             /\ last'.outcome = "returned"]_vars

\* C6 witness: a removal that found no record, on a mounted control that
\* holds a splat and a model.
C6_Witness ==
    /\ last.op \in {"removeSplat", "removeModel"}
    /\ emitted = <<>>
    /\ mounted
    /\ Len(splatLayers) = 1 /\ Len(modelLayers) = 1
    /\ st.layerCount = 2

\* C7: removeAllSplats() removes every splat and no model: the models stay
\* registered and attached, layerCount is the number of models and no
\* modelremove event is emitted.
C7_RemoveAllSplatsKeepsModels ==
    [][RemoveAllSplats =>
          /\ GetSplatIds' = <<>>
          /\ modelLayers' = modelLayers
          /\ \A i \in 1..Len(modelLayers) :
                modelLayers[i].rtcGroup \in sceneObjects
                    => modelLayers[i].rtcGroup \in sceneObjects'
          /\ Len(modelLayers) > 0 => st'.layerCount = Len(modelLayers)
          /\ Count(emitted', "modelremove") = 0]_vars

\* C8: expand() emits one `expand` event exactly when the panel was
\* collapsed and leaves the panel expanded; collapse() emits one `collapse`
\* event exactly when the panel was expanded and leaves it collapsed; on a
\* panel already in the target state they change nothing and emit nothing.
C8_ExpandCollapseEvents ==
    [][/\ Expand => /\ EventTypes(emitted') =
                          (IF st.collapsed THEN <<"expand">> ELSE <<>>)
                    /\ ~st'.collapsed
                    /\ ~st.collapsed => st' = st
       /\ Collapse => /\ EventTypes(emitted') =
                            (IF st.collapsed THEN <<>> ELSE <<"collapse">>)
                      /\ st'.collapsed
                      /\ st.collapsed => st' = st]_vars

\* C8 witness: expand() was called on an expanded panel and emitted nothing.
C8_Witness == last.op = "expand" /\ emitted = <<>> /\ ~st.collapsed

\* C9: no write through a value returned by getState() changes what a later
\* getState() shows, nor the configured defaults.
C9_GetStateIsACopy ==
    [][(WriteField \/ \E i \in 1..3 : WriteRotation(i)) =>
          /\ Observed(st', heap') = Observed(st, heap)
          /\ heap'[RefDefaultRotation] = heap[RefDefaultRotation]]_vars

\* The placements that give longitude, latitude and altitude.
ExplicitPlacements ==
    {o \in LoadOptions : {"longitude", "latitude", "altitude"} \subseteq DOMAIN o}

\* C10: a load(url, p) that is routed to the splat pipeline, with p given
\* explicitly, and that resolves with id, is followed by getSplatInfo(id) =
\* {url, p.longitude, p.latitude, p.altitude}; the info of a registered id
\* does not change while the id stays registered.
C10_SplatInfoRoundTrip ==
    [][/\ \A url \in RoutedUrls, o \in ExplicitPlacements, f \in Failures :
             (last'.outcome = "resolved" /\ ~IsModelUrl(url) /\ Load(url, o, f))
             => SplatInfoIn(splatLayers', last'.value[1]) =
                    <<[url |-> url, longitude |-> o.longitude,
                       latitude |-> o.latitude, altitude |-> o.altitude]>>
       /\ \A id \in RemovalIds :
             (Has(splatLayers, id) /\ Has(splatLayers', id))
             => SplatInfoIn(splatLayers', id) = SplatInfoIn(splatLayers, id)]_vars

\* C10 witness: a splat load given the explicit placement (0, 0, 0) resolved
\* on a control whose defaults are not 0, and its info shows (0, 0, 0).
C10_Witness ==
    /\ last.op = "loadSplat" /\ last.outcome = "resolved"
    /\ options.defaultLongitude # 0
    /\ GetSplatInfo(last.value[1]) =
           <<[url |-> UrlSpz, longitude |-> 0, latitude |-> 0, altitude |-> 0]>>

\* The urls of RouteUrls whose path ends in .gltf or .glb, in any letter case.
ModelRouted == {UrlGlb, UrlGltf, UrlFragment}

\* C11: load(url) goes to the model pipeline exactly when the extension of
\* the url's path, in any letter case and without the query string, is gltf
\* or glb, and to the splat pipeline for every other url.
C11_ExtensionRouting ==
    [][\A url \in RouteUrls :
          (st'.url = url /\ Load(url, NoPlacement, FailNone) /\ mounted)
          => IF url \in ModelRouted
             THEN /\ last' = Suspended("loadModel")
                  /\ \E p \in pending' \ pending : p.url = url
                  /\ splatLayers' = splatLayers
             ELSE /\ last'.op = "loadSplat"
                  /\ Len(splatLayers') = Len(splatLayers) + 1
                  /\ splatLayers'[Len(splatLayers')].url = url
                  /\ pending' = pending]_vars

\* C11 witness: load("https://x/a.GLB?x=1") was taken as a model load and
\* waits for its decode, after load("https://x/a.spz") registered a splat.
C11_Witness ==
    /\ last = Suspended("loadModel")
    /\ st.url = UrlGlb
    /\ \E p \in pending : p.url = UrlGlb
    /\ Len(splatLayers) = 1 /\ splatLayers[1].url = UrlSpz

\* C12: on a control constructed with loadDefaultUrl and a splat defaultUrl,
\* onAdd registers the idle listener; when the map calls it on the mounted
\* control (and no step of the load throws) the default url is loaded:
\* hasLayer is true and exactly one splatload event, with the default url,
\* is emitted.  The listener is gone once called, so that a later idle
\* notification loads nothing.
C12_AutoLoadOnce ==
    [][/\ (OnAdd /\ options.loadDefaultUrl /\ options.defaultUrl # <<>>)
          => idlePending' = ListenerRegistered
       /\ (idlePending = ListenerRegistered /\ mounted
             /\ ~IsModelUrl(options.defaultUrl) /\ MapIdle(FailNone))
          => /\ st'.hasLayer
             /\ last' = Resolved("loadSplat", NewSplatId(layerCounter))
             /\ emitted' = <<Event("splatload", [url |-> options.defaultUrl,
                                                 splatId |-> NewSplatId(layerCounter)])>>
             /\ Has(splatLayers', NewSplatId(layerCounter))
       /\ \A f \in Failures :
             (idlePending # ListenerNone /\ MapIdle(f)) => idlePending' = ListenerNone]_vars

\* C12 witness: the only load of the mounted control is the auto-load, which
\* resolved; the listener is gone.
C12_Witness ==
    /\ options.loadDefaultUrl /\ mounted
    /\ idlePending = ListenerNone
    /\ nGroups = 1
    /\ last = Resolved("loadSplat", SplatId(0))
    /\ st.hasLayer /\ st.url = options.defaultUrl
    /\ emitted = <<Event("splatload", [url |-> options.defaultUrl, splatId |-> SplatId(0)])>>

\* C13: when onRemove runs while the idle listener is still registered, the
\* listener is taken off and the control is unmounted; if the map calls the
\* listener all the same, no load starts, no record is inserted and no event
\* is emitted.
C13_UnmountCancelsAutoLoad ==
    [][/\ (idlePending = ListenerRegistered /\ OnRemove)
          => idlePending' = ListenerCancelled /\ ~mounted'
       /\ idlePending = ListenerCancelled => ~mounted
       /\ \A f \in Failures :
             (idlePending = ListenerCancelled /\ MapIdle(f))
             => /\ last' = Returned("idle")
                /\ emitted' = <<>>
                /\ UNCHANGED <<st, splatLayers, modelLayers, sceneObjects, pending,
                               layerCounter, modelCounter, nGroups, hist>>]_vars

\* C13 witness: the control was unmounted before the idle notification, the
\* map called the listener afterwards, and nothing was ever loaded.
C13_Witness ==
    /\ last = Returned("idle")
    /\ ~mounted
    /\ options.loadDefaultUrl
    /\ idlePending = ListenerNone
    /\ nGroups = 0 /\ hist.splatIds = <<>> /\ ~st.hasLayer /\ ~st.loading

\* The remove events of the records of a registry, one per record, in order.
RemoveEvents(layers, type, key) ==
    [i \in 1..Len(layers) |-> Event(type, [x \in {key} |-> layers[i].id])]

Called(cs) == [i \in 1..Len(cs) |-> cs[i].handler]

\* hs up to and including the first handler that throws; hs when none does.
UpToThrow(hs) ==
    LET at == {i \in 1..Len(hs) : hs[i] = HandlerThrows}
    IN  IF at = {} THEN hs ELSE SubSeq(hs, 1, Min(at))

\* The kind a panel operation emits from state s.
PanelKind(s) == IF s.collapsed THEN "expand" ELSE "collapse"

\* A step is a panel operation that emits its event.
PanelEmits == (Expand \/ Collapse \/ Toggle) /\ emitted' # <<>>

\* C15: the state in an event payload is a snapshot: what a handler assigns
\* to it changes neither the control's state after the operation, nor the
\* state handed to the handlers called after it.
C15_PayloadIsSnapshot ==
    [][PanelEmits =>
          /\ st' = [st EXCEPT !.collapsed = ~@]
          /\ \A i \in 1..Len(calls') : calls'[i].state = [st EXCEPT !.collapsed = ~@]]_vars

C17_OffUnsubscribes ==
    [][/\ \A kind \in PanelKinds, h \in Handlers :
             (last'.op = "off" /\ Off(kind, h))
             => /\ ~IsSubscribed(eventHandlers'[kind], h)
                /\ eventHandlers'[kind] =
                       SelectSeq(eventHandlers[kind], LAMBDA x : x # h)
                /\ \A other \in PanelKinds \ {kind} :
                       eventHandlers'[other] = eventHandlers[other]
                /\ ~IsSubscribed(eventHandlers[kind], h) => eventHandlers' = eventHandlers
                /\ last' = Returned("off") /\ calls' = <<>> /\ st' = st
       /\ PanelEmits =>
             /\ \A i \in 1..Len(calls') :
                   IsSubscribed(eventHandlers[calls'[i].type], calls'[i].handler)
             /\ \A i \in 1..Len(eventHandlers[PanelKind(st)]) :
                   (\A j \in 1..(i-1) : eventHandlers[PanelKind(st)][j] # HandlerThrows)
                   => IsSubscribed(Called(calls'), eventHandlers[PanelKind(st)][i])]_vars

\* C17 witness: after a was taken off expand, expand() called b alone, while
\* a is still subscribed to collapse.
C17_Witness ==
    /\ last = Returned("expand")
    /\ eventHandlers["expand"] = <<HandlerB>>
    /\ eventHandlers["collapse"] = <<HandlerA>>
    /\ Called(calls) = <<HandlerB>>

\* The handles of the groups of the records of a registry.
HandlesIn(layers) == {layers[i].rtcGroup.handle : i \in 1..Len(layers)}

\* The group of a suspended loadModel call is in no record and not in the scene.
Detached(p, splat, model, scene) ==
    /\ p.rtcGroup.handle \notin HandlesIn(splat) \cup HandlesIn(model)
    /\ p.rtcGroup.handle \notin {g.handle : g \in scene}

\* C18: a loadModel call that reaches its decode is suspended: it inserts no
\* record, issues no id, attaches nothing and emits nothing.  While its
\* decode is pending, whatever else runs, its group stays in no record and
\* out of the scene.  A loadModel call resolves only in the step that takes
\* the answer of a pending decode, and a modelload event is emitted only in
\* such a step, for that call's url.
C18_ModelResolvesAfterDecode ==
    [][/\ \A p \in pending : Detached(p, splatLayers, modelLayers, sceneObjects)
       /\ \A p \in pending' : Detached(p, splatLayers', modelLayers', sceneObjects')
       /\ (last'.op = "loadModel" /\ pending' # pending /\ pending \subseteq pending')
          => /\ last'.outcome = "pending"
             /\ Cardinality(pending') = Cardinality(pending) + 1
             /\ UNCHANGED <<modelLayers, modelCounter, sceneObjects>>
             /\ emitted' = <<>>
       /\ (last'.op = "loadModel" /\ last'.outcome = "resolved")
          => \E p \in pending :
                /\ pending' = pending \ {p}
                /\ Get(modelLayers', last'.value[1]).rtcGroup.handle = p.rtcGroup.handle
       /\ Count(emitted', "modelload") > 0
          => \E p \in pending : pending' = pending \ {p} /\ emitted'[1].url = p.url]_vars

\* C18 witness: a splat load resolved while the decode of a model is pending.
C18_Witness ==
    /\ Cardinality(pending) = 1
    /\ last = Resolved("loadSplat", SplatId(0))
    /\ Len(splatLayers) = 1 /\ modelLayers = <<>>
    /\ modelCounter = 0 /\ st.layerCount = 1

\* C19: a load that resolves with id emits exactly one event: splatload with
\* splatId = id for a splat, modelload with modelId = id for a model, with
\* the url of the call (the url of the record id); at that point hasLayer is
\* true, loading is false and layerCount is the size of the two registries.
C19_LoadEvent ==
    [][last'.outcome = "resolved"
       => /\ st'.hasLayer /\ ~st'.loading
          /\ st'.layerCount = Len(splatLayers') + Len(modelLayers')
          /\ \/ /\ last'.op = "loadSplat"
                /\ \E url \in LoadUrls :
                      /\ \E f \in Failures :
                            \/ LoadSplat(url, NoPlacement, f)
                            \/ idlePending # ListenerNone /\ url = options.defaultUrl
                      /\ emitted' = <<Event("splatload",
                                            [url |-> url, splatId |-> last'.value[1]])>>
                      /\ Get(splatLayers', last'.value[1]).url = url
                /\ ~Has(splatLayers, last'.value[1])
             \/ /\ last'.op = "loadModel"
                /\ \E p \in pending \ pending' :
                      /\ emitted' = <<Event("modelload",
                                            [url |-> p.url, modelId |-> last'.value[1]])>>
                      /\ Get(modelLayers', last'.value[1]).url = p.url
                /\ ~Has(modelLayers, last'.value[1])]_vars

\* C19 witness: a model load resolved on a control that held a splat: one
\* modelload event with the returned id, layerCount 2.
C19_Witness ==
    /\ last = Resolved("loadModel", ModelId(0))
    /\ emitted = <<Event("modelload", [url |-> UrlGlb, modelId |-> ModelId(0)])>>
    /\ Len(splatLayers) = 1 /\ Len(modelLayers) = 1
    /\ st.hasLayer /\ ~st.loading /\ st.layerCount = 2

LoadCalled ==
    /\ last'.op \in {"loadSplat", "loadModel"}
    /\ pending \subseteq pending'
    /\ idlePending' = idlePending

\* C21: load, loadSplat and loadModel called on a control that is not
\* mounted (never mounted, or unmounted again) reject with 'Map not
\* initialized' and leave the state, both registries, both counters, the
\* scene and the pending decodes as they were; nothing is emitted.
C21_UnmountedLoadRejects ==
    [][(~mounted /\ LoadCalled)
       => /\ last'.outcome = "rejected"
          /\ last'.value = <<ErrMapNotInitialized>>
          /\ emitted' = <<>>
          /\ UNCHANGED <<st, heap, splatLayers, modelLayers, layerCounter, modelCounter,
                         sceneObjects, pending, nGroups, mounted>>]_vars

\* C21 witness: loadModel was called after the control, which had loaded a
\* splat, was unmounted; it rejected and the state shows no error.
C21_Witness ==
    /\ last = Rejected("loadModel", ErrMapNotInitialized)
    /\ ~mounted
    /\ hist.splatIds = <<SplatId(0)>>
    /\ st.error = <<>> /\ ~st.loading /\ emitted = <<>>

\* The ids of ids that have a record in layers, in the order of ids.
Registered(ids, layers) == SelectSeq(ids, LAMBDA id : \E i \in 1..Len(layers) : layers[i].id = id)

\* C22: getSplatIds() and getSplatInfo(id) return (they raise nothing) and
\* change nothing of the control; getSplatIds() is the list of the splat
\* ids that have a record, in the order in which they were issued;
\* getSplatInfo(id) is null exactly when no splat record has that id, and
\* else the url and the placement of that record.
C22_ReadsAreReadOnly ==
    [][(last'.op \in {"getSplatIds", "getSplatInfo"})
       => /\ last'.outcome = "returned"
          /\ emitted' = <<>>
          /\ UNCHANGED <<mounted, options, st, heap, splatLayers, modelLayers, layerCounter,
                         modelCounter, sceneObjects, idlePending, pending, nGroups,
                         eventHandlers>>
          /\ last'.op = "getSplatIds"
                => last'.value[1] = Registered(hist.splatIds, splatLayers)
          /\ last'.op = "getSplatInfo"
                => LET id   == last'.value[1].layerId
                       info == last'.value[1].info
                       here == {i \in 1..Len(splatLayers) : splatLayers[i].id = id}
                   IN  /\ (info = <<>>) <=> (here = {})
                       /\ \A i \in here :
                             info = <<[url |-> splatLayers[i].url,
                                       longitude |-> splatLayers[i].longitude,
                                       latitude |-> splatLayers[i].latitude,
                                       altitude |-> splatLayers[i].altitude]>>]_vars

\* C22 witness: with a splat and a model registered, getSplatInfo of the
\* model's id returned null.
C22_Witness ==
    /\ last = ReturnedValue("getSplatInfo", [layerId |-> ModelId(0), info |-> <<>>])
    /\ \E i \in 1..Len(modelLayers) : modelLayers[i].id = ModelId(0)
    /\ Len(splatLayers) = 1

\* The value of option k for a constructor argument o: the one given, or
\* else the literal of DEFAULT_OPTIONS.
Configured(o, k) ==
    IF k \in DOMAIN o THEN o[k]
    ELSE CASE k = "position" -> "top-right"
           [] k = "collapsed" -> TRUE
           [] k = "defaultUrl" -> <<>>
           [] k = "loadDefaultUrl" -> FALSE
           [] k = "defaultOpacity" -> 1
           [] k = "defaultRotation" -> RefDefaultRotation
           [] k = "defaultModelRotation" -> RefDefaultModelRotation
           [] k = "defaultScale" -> 1
           [] k \in {"defaultLongitude", "defaultLatitude", "defaultAltitude"} -> 0
           [] k = "flyTo" -> TRUE
           [] k = "flyToZoom" -> 18

\* C23: a newly constructed control has the given options over the
\* defaults, each given option replacing its own default and no other, and
\* its state is taken from that configuration: with no option it is
\* collapsed, url '', not loading, no error, no layer, layerCount 0,
\* opacity 1, scale 1, and getDefaultPosition() is 'top-right'.
C23_ConstructedState ==
    last.op = "constructor"
    => LET o == last.value[1]
       IN  /\ \A k \in DOMAIN options : options[k] = Configured(o, k)
           /\ DOMAIN o \subseteq DOMAIN options
           /\ GetDefaultPosition = Configured(o, "position")
           /\ st.collapsed = Configured(o, "collapsed")
           /\ st.url = Configured(o, "defaultUrl")
           /\ st.opacity = Configured(o, "defaultOpacity")
           /\ st.scale = Configured(o, "defaultScale")
           /\ st.rotation = Configured(o, "defaultRotation")
           /\ st.longitude = Configured(o, "defaultLongitude")
           /\ st.latitude = Configured(o, "defaultLatitude")
           /\ st.altitude = Configured(o, "defaultAltitude")
           /\ ~st.loading /\ st.error = <<>> /\ st.status = <<>>
           /\ ~st.hasLayer /\ st.layerCount = 0
           /\ DOMAIN o = {}
                => /\ st.collapsed /\ st.url = <<>> /\ st.opacity = 1 /\ st.scale = 1
                   /\ GetDefaultPosition = "top-right"

\* C23 witness: a control constructed with the opacity 0 alone has opacity
\* 0 and every other default.
C23_Witness ==
    /\ last.op = "constructor"
    /\ DOMAIN last.value[1] = {"defaultOpacity"}
    /\ st.opacity = 0 /\ st.scale = 1 /\ st.collapsed
    /\ options.position = "top-right" /\ options.flyToZoom = 18

\* C24: after expand() the panel is expanded and after collapse() it is
\* collapsed, from either state and whatever the subscribed handlers do with
\* the event; toggle() negates the flag and emits exactly one event, expand
\* when the panel becomes expanded and collapse when it becomes collapsed;
\* a toggle() that follows a toggle() therefore gives the flag back.
C24_PanelAlgebra ==
    [][/\ last'.op = "expand" => ~st'.collapsed
       /\ last'.op = "collapse" => st'.collapsed
       /\ last'.op = "toggle"
             => /\ st'.collapsed = ~st.collapsed
                /\ EventTypes(emitted') =
                       <<IF st'.collapsed THEN "collapse" ELSE "expand">>
                /\ last.op = "toggle" => emitted' # emitted]_vars

\* C24 witness: toggle() collapsed an expanded panel and emitted one
\* collapse event, which a subscribed handler received.
C24_Witness ==
    /\ last = Returned("toggle")
    /\ st.collapsed
    /\ EventTypes(emitted) = <<"collapse">>
    /\ Called(calls) = <<HandlerA>>

\* C25: update(o) leaves the configuration with the options of o over the
\* ones it had; when o has `collapsed` the flag of the state is that value
\* at once, and when it has not the flag is as before; in both cases every
\* other field of the state (layerCount, hasLayer, loading, error and status
\* among them), the registries, the counters and the scene are unchanged and
\* nothing is emitted.
C25_UpdateFrame ==
    [][\A o \in UpdateOptions \cup UpdateOthers :
          (last'.op = "update" /\ Update(o))
          => /\ \A k \in DOMAIN options' :
                   options'[k] = IF k \in DOMAIN o THEN o[k] ELSE options[k]
             /\ DOMAIN options' = DOMAIN options
             /\ st'.collapsed = IF "collapsed" \in DOMAIN o THEN o.collapsed
                                ELSE st.collapsed
             /\ \A k \in DOMAIN st \ {"collapsed"} : st'[k] = st[k]
             /\ emitted' = <<>>
             /\ UNCHANGED <<splatLayers, modelLayers, layerCounter, modelCounter,
                            sceneObjects, heap, mounted>>]_vars

\* C25 witness: update({flyTo: false}) on an expanded panel that holds a
\* splat: the configuration says collapsed, the flag still says expanded.
C25_Witness ==
    /\ last = Returned("update")
    /\ ~options.flyTo /\ options.collapsed /\ ~st.collapsed
    /\ Len(splatLayers) = 1 /\ st.layerCount = 1

\* C26: removeAllModels() removes every registered model and no splat, and
\* emits one modelremove for each model and no splatremove; removeAllSplats()
\* on a control with no splat, and removeAllModels() on a control with no
\* model, change nothing and emit nothing.
C26_RemoveAllOfKind ==
    [][/\ last'.op = "removeAllModels"
             => /\ modelLayers' = <<>>
                /\ splatLayers' = splatLayers
                /\ EventTypes(emitted') = [i \in 1..Len(modelLayers) |-> "modelremove"]
                /\ modelLayers = <<>>
                      => /\ emitted' = <<>>
                         /\ UNCHANGED <<st, splatLayers, modelLayers, sceneObjects>>
       /\ (last'.op = "removeAllSplats" /\ splatLayers = <<>>)
             => /\ emitted' = <<>>
                /\ UNCHANGED <<st, splatLayers, modelLayers, sceneObjects>>]_vars

\* The rotation, in radians, a group is created with from r in degrees.
Radians(r) == <<[timesPi |-> r[1], over |-> 180], [timesPi |-> r[2], over |-> 180],
               [timesPi |-> r[3], over |-> 180]>>

\* The rotation of the caller's placement o, or else r.
GivenOr(o, r) == IF "rotation" \in DOMAIN o THEN o.rotation ELSE r

\* C27: the group of a model load is created with the caller's rotation
\* when one is given and with the configured defaultModelRotation, as it is
\* at the call, when none is; the record the call inserts later owns that
\* group.  The group of a splat load is created with the caller's rotation
\* or else with the rotation held in the state at the call.
C27_RotationUsed ==
    [][/\ \A o \in {NoPlacement, FullPlacement} :
             (/\ last'.op = "loadModel" /\ last'.outcome = "pending"
              /\ \E url \in LoadUrls : Load(url, o, FailNone) \/ LoadModel(url, o, FailNone))
             => /\ Cardinality(pending' \ pending) = 1
                /\ \A p \in pending' \ pending :
                      p.rtcGroup.rotation =
                          Radians(GivenOr(o, heap[options.defaultModelRotation]))
       /\ (last'.op = "loadModel" /\ last'.outcome = "resolved")
             => \E p \in pending \ pending' :
                   Get(modelLayers', last'.value[1]).rtcGroup.rotation = p.rtcGroup.rotation
       /\ \A o \in {NoPlacement, FullPlacement} :
             (/\ last'.op = "loadSplat" /\ last'.outcome = "resolved"
              /\ \E url \in LoadUrls : Load(url, o, FailNone) \/ LoadSplat(url, o, FailNone))
             => Get(splatLayers', last'.value[1]).rtcGroup.rotation =
                    Radians(GivenOr(o, heap[st.rotation]))]_vars

\* C27 witness: a model loaded without a rotation of the caller owns a group
\* with the model default rotation, on a control whose state rotation was
\* edited in the panel and is another one.
C27_Witness ==
    /\ last.op = "loadModel" /\ last.outcome = "resolved"
    /\ modelLayers[1].rtcGroup.rotation = Radians(<<90, 0, 0>>)
    /\ options.defaultModelRotation = RefDefaultModelRotation
    /\ heap[st.rotation] = <<TypedRotation, 90, 0>>

\* The value of field key of the caller's placement o, or else v.
FieldOr(o, key, v) == IF key \in DOMAIN o THEN o[key] ELSE v

\* C28: a load that resolves stores, for longitude, latitude and altitude,
\* and uses, for the scale of the group, the value the caller gave, and for
\* a field the caller left out the value the control holds for that field
\* at the call, whatever that value is, 0 included.
C28_UnspecifiedUsesDefault ==
    [][\A o \in LoadOptions :
          (/\ last'.op = "loadSplat" /\ last'.outcome = "resolved"
           /\ \E url \in RoutedUrls : Load(url, o, FailNone))
          => LET layer == Get(splatLayers', last'.value[1])
             IN  /\ layer.longitude = FieldOr(o, "longitude", st.longitude)
                 /\ layer.latitude = FieldOr(o, "latitude", st.latitude)
                 /\ layer.altitude = FieldOr(o, "altitude", st.altitude)
                 /\ layer.rtcGroup.scale = FieldOr(o, "scale", st.scale)
                 /\ layer.rtcGroup.center =
                        <<layer.longitude, layer.latitude, layer.altitude>>]_vars

\* The handles of the groups attached to the current scene.
Attached == {g.handle : g \in sceneObjects}

EventId(e) == IF e.type = "splatload" THEN e.splatId ELSE e.modelId

\* The registry of the kind of a load event.
LayersOf(e, splat, model) == IF e.type = "splatload" THEN splat ELSE model

\* C30: in a load, the record is inserted before the load event is emitted:
\* every handler that is called with a splatload or modelload event finds
\* the id of the event among the registered ids of that kind; and every
\* load event ever emitted carries an id that this call inserted, which is
\* registered when the call ends.
C30_InsertedBeforeHeard ==
    [][/\ \A i \in 1..Len(calls') :
             calls'[i].type \in LoadKinds
             => /\ \E j \in 1..Len(calls'[i].registered) :
                      calls'[i].registered[j] = EventId(calls'[i].event)
                /\ \E j \in 1..Len(emitted') : emitted'[j] = calls'[i].event
       /\ \A j \in 1..Len(emitted') :
             emitted'[j].type \in LoadKinds
             => /\ Has(LayersOf(emitted'[j], splatLayers', modelLayers'), EventId(emitted'[j]))
                /\ ~Has(LayersOf(emitted'[j], splatLayers, modelLayers), EventId(emitted'[j]))
                /\ \A k \in 1..Len(LayersOf(emitted'[j], hist.splatIds, hist.modelIds)) :
                      LayersOf(emitted'[j], hist.splatIds, hist.modelIds)[k]
                          # EventId(emitted'[j])]_vars

\* C30 witness: a model load on a control with two handlers of modelload,
\* the second of which throws: both were called with the event of model-0
\* and found model-0 registered, and the load rejected.
C30_Witness ==
    /\ last = Rejected("loadModel", FailHandler)
    /\ Len(calls) = 2
    /\ calls[1].handler = HandlerA
    /\ calls[2].event.modelId = ModelId(0)
    /\ calls[1].registered = <<ModelId(0)>>
    /\ calls[2].registered = <<ModelId(0)>>

\* C31: between any two operations, layerCount is the number of splat
\* records plus the number of model records, and hasLayer is true exactly
\* when layerCount is greater than 0, after loads of both kinds (failing
\* ones included), removals, mounting and unmounting.
C31_LayerCountMatches ==
    /\ st.layerCount = Len(splatLayers) + Len(modelLayers)
    /\ st.hasLayer <=> st.layerCount > 0

\* What C32 says of a record never changes.
Fixed(layer) ==
    [url |-> layer.url, longitude |-> layer.longitude, latitude |-> layer.latitude,
     altitude |-> layer.altitude, handle |-> layer.rtcGroup.handle]

\* In a step, the records of layers that are still in layers2 are as they
\* were, and every record that is gone was removed: its remove event, of
\* type kind with the id under key, was emitted.
Kept(layers, layers2, ev, kind, key) ==
    \A i \in 1..Len(layers) :
        LET here == {j \in 1..Len(layers2) : layers2[j].id = layers[i].id}
        IN  /\ \A j \in here : Fixed(layers2[j]) = Fixed(layers[i])
            /\ here = {} => \E n \in 1..Len(ev) :
                                ev[n].type = kind /\ ev[n][key] = layers[i].id

\* C32: a registered record keeps its url, longitude, latitude, altitude
\* and scene handle in every step that does not remove it: loads of other
\* assets at other placements, loads that fail, the panel operations,
\* update() and the queries leave it as it is, and it goes only by a
\* removal of its id.
C32_RecordsImmutable ==
    [][/\ Kept(splatLayers, splatLayers', emitted', "splatremove", "splatId")
       /\ Kept(modelLayers, modelLayers', emitted', "modelremove", "modelId")]_vars

\* C32 witness: a second splat was loaded at the caller's placement while
\* splat-0 keeps the placement it was loaded at.
C32_Witness ==
    /\ last = Resolved("loadSplat", SplatId(1))
    /\ Len(splatLayers) = 2
    /\ splatLayers[1].id = SplatId(0) /\ splatLayers[1].longitude = MapCenter.lng
    /\ splatLayers[2].longitude = FullPlacement.longitude
    /\ splatLayers[1].rtcGroup.handle # splatLayers[2].rtcGroup.handle

\* C33: a splat load does not suspend: the step that calls loadSplat (or
\* load, for a splat url) is the whole load, it ends resolved or rejected
\* and leaves the set of suspended loads as it was; so no operation finds
\* the control loading a splat: the state never says loading with the
\* status of a splat load, and whenever it says loading a model load is
\* suspended.
C33_SplatLoadNeverSuspends ==
    [][/\ last'.op = "loadSplat"
             => /\ last'.outcome \in {"resolved", "rejected"}
                /\ pending' = pending
                /\ mounted => ~st'.loading
       /\ st'.loading => /\ st'.status # <<"Loading splat...">>
                         /\ pending' # {}]_vars

\* C33 witness: a splat load resolved while a model load is suspended; the
\* state says not loading.
C33_Witness ==
    /\ last = Resolved("loadSplat", SplatId(0))
    /\ pending # {}
    /\ ~st.loading /\ mounted

\* C34: whenever no load is in flight (no loadModel call is suspended at
\* its decode; a splat load is never in flight between two operations),
\* the state says not loading: every load that set loading sets it back
\* when it ends, resolved or rejected at any point, mounted or not.
C34_NoLoadNoLoading == (pending = {}) => ~st.loading

\* C34 witness: the decode of a model load answered after the control was
\* unmounted; the load rejected and no load is left, the state says not
\* loading.
C34_Witness ==
    /\ last = Rejected("loadModel", "TypeError")
    /\ pending = {}
    /\ ~mounted /\ ~st.loading /\ st.error # <<>>

\* C35: while the control is unmounted both registries are empty, also
\* when handlers of the remove events start loads during onRemove; and a
\* model load whose decode answers while the control is unmounted rejects,
\* inserts no record, attaches nothing and emits no modelload event.
C35_UnmountedHoldsNothing ==
    [][/\ ~mounted' => splatLayers' = <<>> /\ modelLayers' = <<>>
       /\ (~mounted /\ ~mounted' /\ last'.op = "loadModel" /\ pending' # pending)
             => /\ last'.outcome = "rejected"
                /\ modelLayers' = modelLayers
                /\ sceneObjects' = sceneObjects
                /\ Count(emitted', "modelload") = 0]_vars

\* C36: a load that rejects leaves the counter of its kind as it was, a
\* load that resolves receives the id whose number is the count of the
\* loads of its kind that resolved before it, and the splat counter is
\* always the number of splat loads that resolved.
C36_IdOnlyOnSuccess ==
    [][/\ (last'.op \in {"loadSplat", "loadModel"} /\ last'.outcome = "rejected")
             => UNCHANGED <<layerCounter, modelCounter>>
       /\ (last'.op = "loadSplat" /\ last'.outcome = "resolved")
             => last'.value = <<SplatId(hist.loaded)>>
       /\ layerCounter' = hist'.loaded]_vars

Informed(cs, cb, e) ==
    SelectSeq(cs, LAMBDA c : /\ c.callback = cb
                             /\ c.event = ChangeOf(e.type)
                             /\ c.layerId = ChangedId(e))

\* Every load that resolves and every record that is deleted has its event,
\* and for every such event each callback that is registered (before and
\* after the step) has been invoked exactly once per registration, with
\* 'add' or 'remove' and the id of the event.
CallbacksInformed ==
    AdapterAttached =>
        /\ last'.outcome = "resolved"
           => \E i \in 1..Len(emitted') :
                 /\ emitted'[i].type \in LoadKinds
                 /\ <<ChangedId(emitted'[i])>> = last'.value
        /\ \A id \in RemovalIds :
              (IsSubscribed(Ids(splatLayers) \o Ids(modelLayers), id)
               /\ ~IsSubscribed(Ids(splatLayers') \o Ids(modelLayers'), id))
              => \E i \in 1..Len(emitted') :
                    /\ emitted'[i].type \in RemoveKinds
                    /\ ChangedId(emitted'[i]) = id
        /\ \A i \in 1..Len(emitted') :
              emitted'[i].type \in AdapterKinds
              => \A cb \in Callbacks :
                    (IsSubscribed(changeCallbacks, cb) /\ IsSubscribed(changeCallbacks', cb))
                    => Len(Informed(changes', cb, emitted'[i]))
                          = Len(SelectSeq(changeCallbacks', LAMBDA c : c = cb))

\* At every invocation getLayerIds() holds the id on 'add' and not on
\* 'remove'; an id is added that was not registered and removed that was, so
\* the 'add' of an id comes before its 'remove'.
CallbacksAgree ==
    \A i \in 1..Len(changes') :
        LET c == changes'[i]
            before == Ids(splatLayers) \o Ids(modelLayers)
        IN  /\ \E j \in 1..Len(emitted') :
                  /\ emitted'[j].type \in AdapterKinds
                  /\ c.event = ChangeOf(emitted'[j].type)
                  /\ c.layerId = ChangedId(emitted'[j])
            /\ c.event = "add"
               => IsSubscribed(c.layerIds, c.layerId) /\ ~IsSubscribed(before, c.layerId)
            /\ c.event = "remove"
               => ~IsSubscribed(c.layerIds, c.layerId) /\ IsSubscribed(before, c.layerId)

\* After destroy() no callback is invoked, and a callback that is not in
\* the array (never registered, or unsubscribed) is not invoked.
CallbacksStop ==
    /\ ~AdapterAttached => changes' = <<>>
    /\ \A i \in 1..Len(changes') : IsSubscribed(changeCallbacks, changes'[i].callback)
    /\ last'.op = "destroy" => ~AdapterAttached' /\ changeCallbacks' = <<>>
    /\ \A cb \in Callbacks :
          (last'.op = "unsubscribe" /\ Unsubscribe(cb)
           /\ Len(SelectSeq(changeCallbacks, LAMBDA c : c = cb)) = 1)
          => ~IsSubscribed(changeCallbacks', cb)

\* C38: for a layer adapter attached to a control, every registered callback
\* is invoked exactly once with 'add' and the id for each load that resolves
\* and exactly once with 'remove' and the id for each removal, the 'add' of an
\* id before its 'remove'; at each invocation getLayerIds() holds the id on
\* 'add' and not on 'remove'; after destroy(), or after its unsubscribe
\* function was called, a callback is not invoked.
C38_CallbacksFollowLayers ==
    [][CallbacksInformed /\ CallbacksAgree /\ CallbacksStop]_vars

====
